---- MODULE Spec2Model ----
(***************************************************************************)
(* Model of the arXiv scraper's download-and-normalize pipeline             *)
(* (src/src/scraper.py, arxiv_client.py, file_processor.py,                *)
(* semantic_scholar_client.py, performance.py, config.py).                 *)
(*                                                                         *)
(* Spec      one call of ArxivScraper._process_single_paper on one paper,  *)
(*           step by step, over an explicit model of the paper's files.    *)
(* SpecPool  ArxivScraper.download_and_process: the thread pool, the       *)
(*           process_lock and the shared counters of PerformanceMonitor,   *)
(*           and a KeyboardInterrupt given to the main thread of run.      *)
(* SpecRerun the same paper processed again over the files of an earlier   *)
(*           run, through the driver's filter or in single-paper mode.     *)
(* SpecStages the download worker and the citation worker of one paper,    *)
(*           run in parallel by ArxivScraper.run.                          *)
(* SpecScratch the paths under cache_dir used by workers of distinct ids.  *)
(* SpecLive  the pool, or one call of _process_single_paper, under a fair  *)
(*           scheduler (termination).                                      *)
(* SpecFiles FileProcessor on one downloaded file: extract_archive, then   *)
(*           remove_figures and copy_tex_and_bib_files file by file.       *)
(* SpecReferences SemanticScholarClient.get_paper_references request by   *)
(*           request, and the store of its result by fetch_citations.      *)
(* SpecMetadata ArxivScraper.fetch_metadata over its cache file, run and    *)
(*           run again.                                                    *)
(* SpecIds   ArxivScraper.generate_paper_ids on an assigned range.         *)
(***************************************************************************)
EXTENDS Integers, Sequences, FiniteSets, TLC

\* ------------------------------------------------------------------ bounds
\* Number of paper ids of the assigned range handed to fetch_metadata.
MaxIds == 200
\* Largest number of references in an answer of the reference API.
MaxRefs == 2
\* Largest number of remote versions whose archives are varied freely.
MaxRemote == 3
\* Number of paper ids handed to the pool driver.
NumPapers == 3
\* Width of the worker pool of the model (MAX_WORKERS is 16 in config.py).
NumWorkers == 2
\* Number of processing runs over the same paper directory.
MaxRuns == 2
\* Largest number of remote versions of a paper that is processed more than once.
MaxRerunRemote == 2
\* Largest number of files in the tree given to remove_figures.
MaxFiles == 4
\* Largest number of downloads of one call that leave an empty file on disk.
MaxEmpty == 1

\* ------------------------------------------------------- program constants
\* scraper.py:137  `batch_size = 100  # arXiv API limit`
batch_size == 100
\* scraper.py:104  `if len(paper_ids) > 10000:`
IdLimit == 10000
\* scraper.py:98  `id_end = 99999`
LastIdOfMonth == 99999
\* config.py:13  MAX_RETRIES = 3
MAX_RETRIES == 3
\* scraper.py:576  `while version <= 20:  # Safety limit`
SafetyLimit == 20
\* arxiv_client.py:135  `max_versions=10`
DefaultMaxVersions == 10
\* First paper number of the id range of the model (start_id of scraper.py:77);
\* its successors carry into the next digit.
FirstPaperNumber == 10009

VARIABLES
    \* ---- one call of _process_single_paper
    remote,               \* remote state: archive of v1..vN, in order
    pc,                   \* position in _process_single_paper
    version,              \* loop variable of the download loop
    downloaded_versions,  \* list of version numbers downloaded (scraper.py:574)
    idx,                  \* position of the processing loop in downloaded_versions
    attempted,            \* calls of download_source_version so far: [version, outcome, empty]
    paper_dir,            \* <data_dir>/<folder_name> exists
    paper_files,          \* plain files under the paper directory
    tex_dir,              \* version number -> files of tex/<folder_name>v<N>
    cache_files,          \* version numbers whose downloaded archive is in cache_dir
    version_temp,         \* version number -> files of cache/temp_<folder>_<N>
    temp_dir,             \* cache/temp_<folder_name> exists
    result,               \* what the call returned: "none", "True", "False", "raised"
    exc,                  \* "none", "caught" (handler at 695) or "escaped"
    incomplete,           \* files under the paper directory whose content is partial
    extracted,            \* version numbers handed to extract_tarball, in call order
    citations_cache,      \* the citations cache file on disk holds the paper id
    run,                  \* number of the processing run over the paper directory
    previous_run,         \* what the run before left on disk, taken when a run starts
    \* ---- _fetch_single_paper_citations for the same paper (stage 3 of run)
    cpc,                  \* position of the citation worker, then of run after the join
    citations,            \* the dict citations in memory holds the paper id
    \* ---- the scratch directories of the pool's workers
    spaper,               \* worker -> arXiv id of the paper it processes
    snext,                \* worker -> version its processing loop is at (0: ended)
    touched,              \* [path, paper] for every use of a path under cache_dir
    \* ---- ArxivScraper.run
    cancelled,            \* the main thread has been given KeyboardInterrupt
    \* ---- download_and_process
    dpc,                  \* position of the driver
    already_done,         \* paper ids whose metadata.json exists when the driver starts
    queue,                \* submitted tasks no worker has taken yet
    wpc,                  \* worker -> position in _process_paper_with_error_handling
    wpaper,               \* worker -> paper id of its task (0: none)
    wsuccess,             \* worker -> value of `success`
    wtmp,                 \* worker -> value read by the += in progress
    process_lock,         \* holder of process_lock (0: free)
    stats,                \* PerformanceMonitor.stats counters
    processed_count,      \* processed_count[0]
    future,               \* paper id -> results its future was given, in order
    collected,            \* paper ids whose future the as_completed loop has seen
    \* ---- one call of ArxivClient.download_all_versions
    fpc,                  \* position in download_all_versions
    v,                    \* loop variable of `for v in range(1, max_versions + 1)`
    max_versions,         \* argument max_versions
    skip_versions,        \* argument skip_versions (version numbers of its tags)
    results,              \* the list results: version numbers of the (path, tag) pairs
    save_dir,             \* version numbers whose downloaded file is in save_dir
    fetched,              \* iterations so far: [version, outcome, empty]
    \* ---- FileProcessor on one downloaded file (scraper.py:600-626)
    tpc,                  \* position: extract_archive, remove_figures, copy_tex_and_bib_files
    archive,              \* the file at archive_path
    archive_on_disk,      \* archive_path exists
    extract_dir,          \* files under extract_dir (version_temp_dir)
    success,              \* what extract_archive returned: "none", "True", "False"
    ops_made,             \* file operations extract_archive made, in order
    source_tree,          \* files under extract_dir when extract_archive returned
    walk,                 \* the files in the order os.walk gives them to remove_figures
    wpos,                 \* position of the running loop in walk / all_files
    files_removed,        \* remove_figures: files_removed
    bytes_saved,          \* remove_figures: bytes_saved
    removal_failed,       \* files whose getsize/os.remove raised in remove_figures
    skip_arg,             \* argument skip_large_bib of copy_tex_and_bib_files
    all_files,            \* copy_tex_and_bib_files: all_files
    dest_dir,             \* files under dest_dir
    copied,               \* copy_tex_and_bib_files: copied
    skipped_bib,          \* copy_tex_and_bib_files: skipped_bib
    copy_failed,          \* files whose makedirs/copy2 raised in copy_tex_and_bib_files
    size_unread,          \* .bib files whose getsize raised in copy_tex_and_bib_files
    \* ---- SemanticScholarClient.get_paper_references and its caller in fetch_citations
    rpc,                  \* position: "off", "request", "returned", "stored"
    attempt,              \* the loop variable of range(MAX_RETRIES)
    body,                 \* the references of the paper in the API's answer, in order
    http,                 \* the responses to the HTTP requests made so far
    references,           \* the value get_paper_references returned
    citation_entry,       \* citations[paper_id] as fetch_citations stores it
    \* ---- ArxivScraper.fetch_metadata
    mpc,                  \* position: "off", "start", "batch", "returned"
    requested_ids,        \* the argument paper_ids: the ids 1..requested_ids
    remote_known,         \* the ids the remote source has an entry for
    metadata_cache,       \* the metadata cache file: its keys with where each came from
    metadata,             \* the dict metadata
    remaining_papers,     \* the list remaining_papers
    batch_start,          \* the loop variable i of range(0, len(remaining_papers), 100)
    asked,                \* ids handed to get_batch_metadata in this call
    loaded,               \* the keys loaded from the cache file in this call
    failed_batches,       \* calls of get_batch_metadata of this call that gave up
    mrun,                 \* number of the call of fetch_metadata over the same cache
    \* ---- ArxivScraper.generate_paper_ids
    gpc,                  \* position: "off", "loop", "returned"
    paper_range,          \* self.paper_range
    current_year,
    current_mon,
    paper_ids             \* the list paper_ids, as runs of consecutive ids of a month

paperVars == <<remote, pc, version, downloaded_versions, idx, attempted, paper_dir,
               paper_files, tex_dir, cache_files, version_temp, temp_dir, result, exc,
               incomplete, extracted, citations_cache, run, previous_run>>
stageVars == <<cpc, citations>>
\* What no step of _process_single_paper before the metadata write touches.
runVars == <<citations_cache, run, previous_run>>
poolVars == <<dpc, already_done, queue, wpc, wpaper, wsuccess, wtmp, process_lock,
              stats, processed_count, future, collected>>
fetchVars == <<fpc, v, max_versions, skip_versions, results, save_dir, fetched>>
scratchVars == <<spaper, snext, touched>>
fileVars == <<tpc, archive, archive_on_disk, extract_dir, success, ops_made, source_tree,
              walk, wpos, files_removed, bytes_saved, removal_failed, skip_arg, all_files,
              dest_dir, copied, skipped_bib, copy_failed, size_unread>>
refVars == <<rpc, attempt, body, http, references, citation_entry>>
metaVars == <<mpc, requested_ids, remote_known, metadata_cache, metadata, remaining_papers,
              batch_start, asked, loaded, failed_batches, mrun>>
idVars == <<gpc, paper_range, current_year, current_mon, paper_ids>>
clientVars == <<refVars, metaVars, idVars>>
vars == <<paperVars, poolVars, fetchVars, stageVars, scratchVars, cancelled, fileVars,
          clientVars>>

\* ------------------------------------------------------------------ files
\* File names of the model, with the extension os.path / str.endswith sees.
\* A file name is its stem followed by its dotted suffixes: paper.tar.gz is
\* <<"paper", ".tar", ".gz">>. A file is [dir, name, size]: its directory relative
\* to the root of the tree it is in, its name, its size in bytes (which stands for
\* its content).
File(dir, name, size) == [dir |-> dir, name |-> name, size |-> size]

\* file_processor.py:213, scraper.py:27  bib_size_threshold=5*1024*1024
bib_size_threshold == 5 * 1024 * 1024

TexName == File(<<>>, <<"main", ".tex">>, 1)
BibName == File(<<>>, <<"refs", ".bib">>, 1)
BigBibName == File(<<>>, <<"big", ".bib">>, bib_size_threshold + 1)
FigName == File(<<>>, <<"fig", ".png">>, 1)
EdgeBibName == File(<<>>, <<"edge", ".bib">>, bib_size_threshold)
SubTexName == File(<<"sub">>, <<"chap", ".tex">>, 1)
UpperFigName == File(<<"sub">>, <<"PLOT", ".PNG">>, 1)
UpperTexName == File(<<>>, <<"DRAFT", ".TEX">>, 1)
OtherName == File(<<>>, <<"notes", ".txt">>, 1)

\* pathlib.Path.suffix, Path.stem (file_processor.py:58, 91, 117)
suffix(name) == IF Len(name) > 1 THEN name[Len(name)] ELSE ""
stem(name) == IF Len(name) > 1 THEN SubSeq(name, 1, Len(name) - 1) ELSE name

\* file_processor.py:70  p.name.replace('.tar.gz', '.pdf')
RECURSIVE replace_tar_gz(_)
replace_tar_gz(name) ==
    IF Len(name) < 2 THEN name
    ELSE IF name[1] = ".tar" /\ name[2] = ".gz"
    THEN <<".pdf">> \o replace_tar_gz(SubSeq(name, 3, Len(name)))
    ELSE <<name[1]>> \o replace_tar_gz(Tail(name))

\* str.lower (file_processor.py:178), on the names that occur.
lower_part(c) ==
    CASE c = "PLOT" -> "plot"
      [] c = ".PNG" -> ".png"
      [] c = "DRAFT" -> "draft"
      [] c = ".TEX" -> ".tex"
      [] OTHER -> c

lower(name) == [i \in 1..Len(name) |-> lower_part(name[i])]

\* file_processor.py:172  figure_extensions
figure_extensions == {".png", ".jpg", ".jpeg", ".pdf", ".eps", ".ps", ".svg", ".gif",
                      ".tif", ".tiff"}

\* Mutant: the name is compared as it is spelled.
is_figure_case_sensitive(f) == suffix(f.name) \in figure_extensions

\* Mutant: the stripper also takes the bibliography files.
is_figure_or_bib(f) == suffix(lower(f.name)) \in figure_extensions \cup {".bib"}

\* file_processor.py:178  any(file.lower().endswith(ext) for ext in figure_extensions)
is_figure(f) == suffix(lower(f.name)) \in figure_extensions

\* file_processor.py:232  file.endswith('.tex') or file.endswith('.bib')
is_tex_or_bib(f) == suffix(f.name) \in {".tex", ".bib"}

\* Mutant: a file of exactly the threshold is skipped too.
exceeds_or_equals(size, threshold) == size >= threshold

\* file_processor.py:250  size > bib_size_threshold
exceeds(size, threshold) == size > threshold

\* file_processor.py:246-252 with getsize returning: the .bib file is skipped.
skip_bib(f, skip, threshold) ==
    skip /\ suffix(f.name) = ".bib" /\ exceeds(f.size, threshold)

\* A downloaded file: what extract_archive can see of it.
\*   tar, zip   tarfile.is_tarfile / zipfile.is_zipfile
\*   name       Path(archive_path).name
\*   magic      class of the first 8 bytes: "pdf" (%PDF), "html" (a '<' after
\*              white space), "gzip" (1f 8b), "other"
\*   inner_tar  the gzip payload is a tar
\*   members    files of the container
\*   raises     the calls that raise: "makedirs" (39), "header" (the read at 61-62),
\*              "branch" (the extraction, decompression or copy of the branch
\*              taken), "remove" (os.remove at 104 and 134)
Archive(tar, zip, name, magic, inner_tar, members, raises) ==
    [tar |-> tar, zip |-> zip, name |-> name, magic |-> magic, inner_tar |-> inner_tar,
     members |-> members, raises |-> raises]

TarGzName == <<"paper", ".tar", ".gz">>

TarGood == Archive(TRUE, FALSE, TarGzName, "gzip", FALSE, {TexName, BibName, FigName}, {})
TarFigOnly == Archive(TRUE, FALSE, TarGzName, "gzip", FALSE, {FigName}, {})
PdfMislabelled == Archive(FALSE, FALSE, TarGzName, "pdf", FALSE, {}, {})
HtmlPage == Archive(FALSE, FALSE, TarGzName, "html", FALSE, {}, {})
TarDamaged == Archive(TRUE, FALSE, TarGzName, "gzip", FALSE, {TexName}, {"branch"})

ArchiveSamples == {TarGood, TarFigOnly, HtmlPage, TarDamaged}

\* ------------------------------------------------------- file_processor.py
\* FileProcessor.extract_archive: [ok, out, removed, ops] = the returned bool, the
\* files left in extract_dir, whether the source archive was deleted (130-137), and
\* the file operations made, in order. A call that raises leaves no output behind.
Extracted(ok, out, removed, ops) == [ok |-> ok, out |-> out, removed |-> removed, ops |-> ops]

\* file_processor.py:130-143  the handler of the outer try.
handler(a, ops) ==
    Extracted(FALSE, {}, "remove" \notin a.raises, Append(ops, "remove_archive"))

\* file_processor.py:44-55  extractall of a tar ("untar") or of a zip ("unzip").
extractall(a, op) ==
    IF "branch" \in a.raises THEN handler(a, <<op>>)
    ELSE Extracted(TRUE, a.members, FALSE, <<op>>)

\* file_processor.py:126-128
unsupported(ops) == Extracted(FALSE, {}, FALSE, ops)

\* file_processor.py:116-128  a bare .tex or .bib file, then the unsupported case.
single_file(a, ops) ==
    IF suffix(a.name) \in {".tex", ".bib"}
    THEN IF "branch" \in a.raises
         THEN unsupported(Append(ops, "copy"))
         ELSE Extracted(TRUE, {File(<<>>, a.name, 1)}, FALSE, Append(ops, "copy"))
    ELSE unsupported(ops)

\* file_processor.py:70  name of the copy of a mislabelled PDF
pdf_name(name) == replace_tar_gz(name)

\* file_processor.py:67-75  %PDF: the file is copied under pdf_name.
save_pdf(a) ==
    IF "branch" \in a.raises
    THEN single_file(a, <<"read_magic", "copy_pdf">>)
    ELSE Extracted(TRUE, {File(<<>>, pdf_name(a.name), 1)}, FALSE,
                   <<"read_magic", "copy_pdf">>)

\* Mutant: the saved page counts as an extraction.
save_html_reports_success(a) ==
    Extracted(TRUE, {File(<<>>, a.name \o <<".html">>, 1)}, FALSE,
              <<"read_magic", "copy_html">>)

\* file_processor.py:77-85  '<': the page is saved under name + '.html'; False.
save_html(a) ==
    IF "branch" \in a.raises
    THEN single_file(a, <<"read_magic", "copy_html">>)
    ELSE Extracted(FALSE, {File(<<>>, a.name \o <<".html">>, 1)}, FALSE,
                   <<"read_magic", "copy_html">>)

\* Mutant: the decompressed file stays next to the members of its tar.
gunzip_keeps_intermediate(a) ==
    IF "branch" \in a.raises
    THEN single_file(a, <<"read_magic", "gunzip">>)
    ELSE Extracted(TRUE, (IF a.inner_tar THEN a.members ELSE {})
                             \cup {File(<<>>, stem(a.name), 1)},
                   FALSE, <<"read_magic", "gunzip">>)

\* file_processor.py:87-111  1f 8b: decompress to p.stem; a tar payload is
\* extracted and the decompressed file removed, any other payload is kept.
gunzip(a) ==
    IF "branch" \in a.raises
    THEN single_file(a, <<"read_magic", "gunzip">>)
    ELSE IF a.inner_tar
    THEN Extracted(TRUE,
                   a.members \cup (IF "remove" \in a.raises
                                   THEN {File(<<>>, stem(a.name), 1)} ELSE {}),
                   FALSE, <<"read_magic", "gunzip", "untar", "remove_decompressed">>)
    ELSE Extracted(TRUE, {File(<<>>, stem(a.name), 1)}, FALSE, <<"read_magic", "gunzip">>)

\* file_processor.py:58-114  a name ending in .gz: the first bytes decide. A header
\* that cannot be read is the empty header (63-65).
gz_file(a) ==
    LET magic == IF "header" \in a.raises THEN "" ELSE a.magic
    IN CASE magic = "pdf" -> save_pdf(a)
         [] magic = "html" -> save_html(a)
         [] magic = "gzip" -> gunzip(a)
         [] OTHER -> single_file(a, <<"read_magic">>)

\* Mutant: the name is looked at before the content.
extract_archive_by_name(a) ==
    IF "makedirs" \in a.raises THEN handler(a, <<>>)
    ELSE IF suffix(a.name) = ".gz" THEN gz_file(a)
    ELSE IF suffix(a.name) \in {".tex", ".bib"} THEN single_file(a, <<>>)
    ELSE IF a.tar THEN extractall(a, "untar")
    ELSE IF a.zip THEN extractall(a, "unzip")
    ELSE unsupported(<<>>)

extract_archive(a) ==
    IF "makedirs" \in a.raises THEN handler(a, <<>>)
    ELSE IF a.tar THEN extractall(a, "untar")
    ELSE IF a.zip THEN extractall(a, "unzip")
    ELSE IF suffix(a.name) = ".gz" THEN gz_file(a)
    ELSE single_file(a, <<>>)

\* FileProcessor.remove_figures with no removal failing: the files left in the
\* directory.
remove_figures(files) == {f \in files : ~is_figure(f)}

\* FileProcessor.copy_tex_and_bib_files with no copy failing: the files copied
\* into dest_dir.
copy_tex_and_bib_files(files, skip) ==
    {f \in files : is_tex_or_bib(f) /\ ~skip_bib(f, skip, bib_size_threshold)}

\* ArxivScraper.__init__: skip_large_bib defaults to True.
skip_large_bib == TRUE

\* FileProcessor.extract_tarball, called at scraper.py:600, has no definition in
\* file_processor.py; it is taken to be the extractor of section 4.1, extract_archive.
extract_tarball(a) == extract_archive(a)

\* ArxivClient.download_source_version, called at scraper.py:579, has no definition
\* in arxiv_client.py. By section 6 it returns "not found" or the path of the
\* downloaded archive: "path" (file written), "none" (not found, or the transfer
\* failed), "missing" (a path whose file is not on disk).
download_source_version(n) ==
    IF n <= Len(remote) THEN {"path", "none", "missing"} ELSE {"none"}

\* A downloaded file of zero bytes: no tar, no zip, and no header to read.
EmptyFile == Archive(FALSE, FALSE, TarGzName, "other", FALSE, {}, {})

\* The downloads recorded in history h that left an empty file on disk.
empty_downloads(h) == {i \in 1..Len(h) : h[i].empty}

\* The file in cache_dir for version n of the call in progress: the remote archive,
\* or the empty file the download left.
downloaded_file(n) == IF attempted[n].empty THEN EmptyFile ELSE remote[n]

\* Mutant: the os.path.exists half of the test is dropped.
download_failed_no_exists_check(r) == r = "none"

\* scraper.py:581  `if not tar_path or not os.path.exists(tar_path)`
download_failed(r) == r = "none" \/ r = "missing"

\* Mutant: `break` in place of `continue`.
break_after_failed_extract == Len(downloaded_versions) + 1

\* scraper.py:604  `continue` after a failed extraction: the next loop position.
after_failed_extract == idx + 1

\* Mutant: the version number is left out of the directory name.
version_tex_dir_unversioned(version_num) == 1

\* scraper.py:618  key of tex/<folder_name>v<version_num>
version_tex_dir(version_num) == version_num

\* Mutant: the check of tex/ always finds an entry.
tex_dir_empty_never == FALSE

\* scraper.py:634  `not os.path.exists(tex_dir) or not os.listdir(tex_dir)`
tex_dir_empty == DOMAIN tex_dir = {} /\ "tex/NO_SOURCE_AVAILABLE.txt" \notin paper_files

\* Mutant: the directory tree is cleared before the entry is written.
Put_cleared(f, k, val) == [x \in {k} |-> val]

Put(f, k, val) == [x \in DOMAIN f \cup {k} |-> IF x = k THEN val ELSE f[x]]
Drop(f, k) == [x \in DOMAIN f \ {k} |-> f[x]]

\* Mutant: the processing loop walks downloaded_versions from its end.
version_at_reversed(i) == downloaded_versions[Len(downloaded_versions) + 1 - i]

\* scraper.py:595  `for version_num in downloaded_versions`: the element at position i.
version_at(i) == downloaded_versions[i]

\* scraper.py:695-698: the handler of _process_single_paper.
HandleException ==
    /\ temp_dir' = FALSE            \* cleanup_temp_dir(temp_dir)
    /\ result' = "False"
    /\ exc' = "caught"
    /\ pc' = "done"

\* scraper.py:561-571: create the paper directory; os.makedirs is outside the try.
CreatePaperDir ==
    /\ pc = "start"
    /\ \E ok \in BOOLEAN :
         IF ok
         THEN /\ paper_dir' = TRUE
              /\ pc' = "download"
              /\ UNCHANGED <<result, exc>>
         ELSE /\ result' = "raised"
              /\ exc' = "escaped"
              /\ pc' = "done"
              /\ UNCHANGED paper_dir
    /\ UNCHANGED <<remote, version, downloaded_versions, idx, attempted, paper_files,
                   tex_dir, cache_files, version_temp, temp_dir, incomplete, extracted,
                   runVars>>
    /\ UNCHANGED <<poolVars, fetchVars, stageVars, scratchVars, cancelled, fileVars, clientVars>>

\* Mutant: the loop has no upper limit.
within_safety_limit_unbounded(n) == TRUE

\* scraper.py:576  `while version <= 20`
within_safety_limit(n) == n <= SafetyLimit

\* scraper.py:576-590: one iteration of the download loop.
DownloadVersion ==
    /\ pc = "download"
    /\ within_safety_limit(version)
    /\ \E r \in download_source_version(version), empty \in BOOLEAN :
         /\ empty => (r = "path" /\ Cardinality(empty_downloads(attempted)) < MaxEmpty)
         /\ attempted' = Append(attempted, [version |-> version, outcome |-> r,
                                            empty |-> empty])
         /\ IF download_failed(r)
            THEN /\ pc' = "process"                                   \* break
                 /\ UNCHANGED <<version, downloaded_versions, cache_files>>
            ELSE /\ cache_files' = cache_files \cup {version}
                 /\ downloaded_versions' = Append(downloaded_versions, version)
                 /\ version' = version + 1
                 /\ pc' = "download"
    /\ UNCHANGED <<remote, idx, paper_dir, paper_files, tex_dir, version_temp, temp_dir,
                   result, exc, incomplete, extracted, runVars>>
    /\ UNCHANGED <<poolVars, fetchVars, stageVars, scratchVars, cancelled, fileVars, clientVars>>

\* scraper.py:576: the loop ends at the safety limit.
DownloadLimit ==
    /\ pc = "download"
    /\ ~within_safety_limit(version)
    /\ pc' = "process"
    /\ UNCHANGED <<remote, version, downloaded_versions, idx, attempted, paper_dir,
                   paper_files, tex_dir, cache_files, version_temp, temp_dir, result, exc,
                   incomplete, extracted, runVars>>
    /\ UNCHANGED <<poolVars, fetchVars, stageVars, scratchVars, cancelled, fileVars, clientVars>>

\* scraper.py:595-631: one iteration of the processing loop. fault names the call
\* that raises: os.makedirs(version_temp_dir) at 598, or os.makedirs(dest_dir) at
\* file_processor.py:226 inside copy_tex_and_bib_files.
ProcessVersion ==
    /\ pc = "process"
    /\ idx <= Len(downloaded_versions)
    /\ LET version_num == version_at(idx)
           x == extract_tarball(downloaded_file(version_num))
           stripped == remove_figures(x.out)
       IN \E fault \in {"none", "makedirs", "copy"} :
            IF fault = "makedirs"
            THEN /\ HandleException
                 /\ UNCHANGED <<idx, tex_dir, cache_files, version_temp, extracted>>
            ELSE IF ~x.ok
            THEN /\ fault = "none"
                 /\ extracted' = Append(extracted, version_num)       \* 600
                 /\ version_temp' = Put(version_temp, version_num, x.out)
                 /\ cache_files' = cache_files \ {version_num}        \* 130-137, 602-603
                 /\ idx' = after_failed_extract                       \* continue
                 /\ UNCHANGED <<tex_dir, temp_dir, result, exc, pc>>
            ELSE IF fault = "copy"
            THEN /\ HandleException
                 /\ extracted' = Append(extracted, version_num)
                 /\ version_temp' = Put(version_temp, version_num, stripped)
                 /\ UNCHANGED <<idx, tex_dir, cache_files>>
            ELSE /\ extracted' = Append(extracted, version_num)
                 /\ tex_dir' = Put(tex_dir, version_tex_dir(version_num),
                                   (IF version_tex_dir(version_num) \in DOMAIN tex_dir
                                    THEN tex_dir[version_tex_dir(version_num)] ELSE {})
                                   \cup copy_tex_and_bib_files(stripped, skip_large_bib))
                 /\ version_temp' = Drop(version_temp, version_num)   \* 629
                 /\ cache_files' = cache_files \ {version_num}        \* 630-631
                 /\ idx' = idx + 1
                 /\ UNCHANGED <<temp_dir, result, exc, pc>>
    /\ UNCHANGED <<remote, version, downloaded_versions, attempted, paper_dir, paper_files,
                   incomplete, runVars>>
    /\ UNCHANGED <<poolVars, fetchVars, stageVars, scratchVars, cancelled, fileVars, clientVars>>

\* scraper.py:633-640: no version subdirectory under tex/ -> return False.
CheckTexDir ==
    /\ pc = "process"
    /\ idx > Len(downloaded_versions)
    /\ IF tex_dir_empty
       THEN /\ result' = "False"      \* increment_stat('skipped_papers') is no key of stats
            /\ pc' = "done"
       ELSE /\ pc' = "metadata"
            /\ UNCHANGED result
    /\ UNCHANGED <<remote, version, downloaded_versions, idx, attempted, paper_dir,
                   paper_files, tex_dir, cache_files, version_temp, temp_dir, exc,
                   incomplete, extracted, runVars>>
    /\ UNCHANGED <<poolVars, fetchVars, stageVars, scratchVars, cancelled, fileVars, clientVars>>

\* ---------------------------------------------- the two per-paper JSON files
MetadataFile == "metadata.json"
ReferencesFile == "references.json"
\* scraper.py:746  `tmp_output = ref_output + '.tmp'`
ReferencesTmp == "references.json.tmp"

\* scraper.py:728-735: references.json exists, parses and equals what would be
\* written (the references of a paper do not change within the model).
references_unchanged == ReferencesFile \in paper_files /\ ReferencesFile \notin incomplete

\* scraper.py:747  open(tmp_output, 'w') creates or truncates the file.
open_tmp ==
    /\ paper_files' = paper_files \cup {ReferencesTmp}
    /\ incomplete' = incomplete \cup {ReferencesTmp}

\* scraper.py:748-753: json.dump and the close of the file opened at 747. The file
\* written is the one opened: if another thread has renamed it meanwhile, it is the
\* file now at the final path.
dump_tmp ==
    /\ incomplete' = incomplete \ {IF ReferencesTmp \in paper_files THEN ReferencesTmp
                                                                   ELSE ReferencesFile}
    /\ UNCHANGED paper_files

\* scraper.py:757  os.replace(tmp_output, ref_output): the final path.
replace_target == ReferencesFile

\* scraper.py:756-765: os.replace moves the temporary file, with whatever it holds,
\* onto the final path; when the temporary file is gone os.replace raises, the
\* fallback removes references.json (761) and os.rename raises into 781.
replace_tmp ==
    IF ReferencesTmp \in paper_files
    THEN /\ paper_files' = (paper_files \ {ReferencesTmp}) \cup {replace_target}
         /\ incomplete' = IF ReferencesTmp \in incomplete
                          THEN (incomplete \ {ReferencesTmp}) \cup {replace_target}
                          ELSE incomplete \ {ReferencesTmp, replace_target}
    ELSE /\ paper_files' = paper_files \ {ReferencesFile}
         /\ incomplete' = incomplete \ {ReferencesFile}

\* scraper.py:650-651: open(metadata_output, 'w') creates metadata.json, empty, at
\* its final path.
OpenMetadata ==
    /\ pc = "metadata"
    /\ \E ok \in BOOLEAN :
         IF ok
         THEN /\ paper_files' = paper_files \cup {MetadataFile}
              /\ incomplete' = incomplete \cup {MetadataFile}
              /\ pc' = "dump"
              /\ UNCHANGED <<temp_dir, result, exc>>
         ELSE /\ HandleException
              /\ UNCHANGED <<paper_files, incomplete>>
    /\ UNCHANGED <<remote, version, downloaded_versions, idx, attempted, paper_dir,
                   tex_dir, cache_files, version_temp, extracted, runVars>>
    /\ UNCHANGED <<poolVars, fetchVars, stageVars, scratchVars, cancelled, fileVars, clientVars>>

\* scraper.py:652: json.dump into the open file and its close; an exception (a value
\* that does not serialise, a full disk) goes to the handler at 695 with the file
\* left as far as it was written.
DumpMetadata ==
    /\ pc = "dump"
    /\ \E ok \in BOOLEAN :
         IF ok
         THEN /\ incomplete' = incomplete \ {MetadataFile}
              /\ pc' = "references"
              /\ UNCHANGED <<temp_dir, result, exc>>
         ELSE /\ HandleException
              /\ UNCHANGED incomplete
    /\ UNCHANGED <<remote, version, downloaded_versions, idx, attempted, paper_dir,
                   paper_files, tex_dir, cache_files, version_temp, extracted, runVars>>
    /\ UNCHANGED <<poolVars, fetchVars, stageVars, scratchVars, cancelled, fileVars, clientVars>>

\* scraper.py:659-693 and 724-747: the citations cache on disk holds the paper id
\* (download_and_process is called with citations=None at scraper.py:822; in
\* single-paper mode the argument is the dict fetch_citations has just saved to the
\* cache) and references.json has to be written: the temporary file is opened;
\* otherwise the call returns True.
SaveReferences ==
    /\ pc = "references"
    /\ IF citations_cache /\ ~references_unchanged
       THEN /\ open_tmp
            /\ pc' = "ref_dump"
            /\ UNCHANGED result
       ELSE /\ result' = "True"
            /\ pc' = "done"
            /\ UNCHANGED <<paper_files, incomplete>>
    /\ UNCHANGED <<remote, version, downloaded_versions, idx, attempted, paper_dir,
                   tex_dir, cache_files, version_temp, temp_dir, exc, extracted, runVars>>
    /\ UNCHANGED <<poolVars, fetchVars, stageVars, scratchVars, cancelled, fileVars, clientVars>>

\* scraper.py:748-753: the dump into the temporary file; an exception is caught at
\* 781 and the call still returns True (693).
DumpReferences ==
    /\ pc = "ref_dump"
    /\ \E ok \in BOOLEAN :
         IF ok
         THEN /\ dump_tmp
              /\ pc' = "ref_replace"
              /\ UNCHANGED result
         ELSE /\ result' = "True"
              /\ pc' = "done"
              /\ UNCHANGED <<paper_files, incomplete>>
    /\ UNCHANGED <<remote, version, downloaded_versions, idx, attempted, paper_dir,
                   tex_dir, cache_files, version_temp, temp_dir, exc, extracted, runVars>>
    /\ UNCHANGED <<poolVars, fetchVars, stageVars, scratchVars, cancelled, fileVars, clientVars>>

\* scraper.py:756-765, then 693: the rename onto references.json and return True.
ReplaceReferences ==
    /\ pc = "ref_replace"
    /\ replace_tmp
    /\ result' = "True"
    /\ pc' = "done"
    /\ UNCHANGED <<remote, version, downloaded_versions, idx, attempted, paper_dir,
                   tex_dir, cache_files, version_temp, temp_dir, exc, extracted, runVars>>
    /\ UNCHANGED <<poolVars, fetchVars, stageVars, scratchVars, cancelled, fileVars, clientVars>>

\* ------------------------------- fetch_citations: the worker of the same paper
\* The variables of the orchestrator a citation worker does not touch.
orchestratorVars == <<remote, pc, version, downloaded_versions, idx, attempted, paper_dir,
                      tex_dir, cache_files, version_temp, temp_dir, result, exc,
                      extracted, run, previous_run>>

\* performance.py:49-54  sample_memory reads psutil's memory_info of the process and
\* has no handler: the outcomes of one call.
sample_memory == {"sampled", "raised"}

\* scraper.py:209-230, 258-260: the references are fetched and stored in citations
\* under citations_lock, then sample_memory is called (219); every hundredth
\* completion also saves the citations cache. An exception of the fetch, or of
\* sample_memory after the store, ends the task at 258-260 with False.
CitationStore ==
    /\ cpc = "fetch"
    /\ \E ok \in BOOLEAN, save \in BOOLEAN, m \in sample_memory :
         IF ok /\ m = "sampled"
         THEN /\ citations' = TRUE
              /\ citations_cache' = (citations_cache \/ save)
              /\ cpc' = "check"
         ELSE IF ok
         THEN /\ ~save
              /\ citations' = TRUE                     \* 216 ran before 219
              /\ cpc' = "returned_false"
              /\ UNCHANGED citations_cache
         ELSE /\ ~save /\ m = "sampled"
              /\ cpc' = "done"
              /\ UNCHANGED <<citations, citations_cache>>
    /\ UNCHANGED <<orchestratorVars, paper_files, incomplete>>
    /\ UNCHANGED <<poolVars, fetchVars, scratchVars, cancelled, fileVars, clientVars>>

\* scraper.py:225-230, 279-280: the citations cache is saved by the worker of
\* another paper (its completion being a hundredth one) or by the final save.
SaveCitationsCache ==
    /\ cpc \notin {"off", "fetch"}
    /\ citations
    /\ ~citations_cache
    /\ citations_cache' = TRUE
    /\ UNCHANGED <<orchestratorVars, paper_files, incomplete>>
    /\ UNCHANGED <<poolVars, fetchVars, stageVars, scratchVars, cancelled, fileVars, clientVars>>

\* Mutant: references.json is written whether or not metadata.json is there.
metadata_exists_unchecked == TRUE

\* scraper.py:238-239, 329-334: os.path.exists(metadata_file) for the paper.
metadata_exists == MetadataFile \in paper_files

\* scraper.py:234-252 and 724-747: outside the lock, if metadata.json exists the
\* worker calls _save_references_for_paper, which opens the temporary file unless
\* references.json already holds the same references.
CitationSaveReferences ==
    /\ cpc = "check"
    /\ IF metadata_exists /\ citations /\ ~references_unchanged
       THEN /\ open_tmp
            /\ cpc' = "ref_dump"
       ELSE /\ cpc' = "done"
            /\ UNCHANGED <<paper_files, incomplete>>
    /\ UNCHANGED <<orchestratorVars, citations_cache, citations>>
    /\ UNCHANGED <<poolVars, fetchVars, scratchVars, cancelled, fileVars, clientVars>>

\* scraper.py:748-753 in the citation worker; an exception is caught at 781.
CitationDumpReferences ==
    /\ cpc = "ref_dump"
    /\ \E ok \in BOOLEAN :
         IF ok
         THEN /\ dump_tmp
              /\ cpc' = "ref_replace"
         ELSE /\ cpc' = "done"
              /\ UNCHANGED <<paper_files, incomplete>>
    /\ UNCHANGED <<orchestratorVars, citations_cache, citations>>
    /\ UNCHANGED <<poolVars, fetchVars, scratchVars, cancelled, fileVars, clientVars>>

\* scraper.py:756-765 in the citation worker, then return True (256).
CitationReplaceReferences ==
    /\ cpc = "ref_replace"
    /\ replace_tmp
    /\ cpc' = "done"
    /\ UNCHANGED <<orchestratorVars, citations_cache, citations>>
    /\ UNCHANGED <<poolVars, fetchVars, scratchVars, cancelled, fileVars, clientVars>>

\* scraper.py:857-866 and 285-339: run has joined the stage threads and, when it
\* has metadata and citations in memory, calls update_references_json, which saves
\* the references of every paper that has metadata.json and is in citations
\* (_save_references_for_paper, whole: no other thread is left).
UpdateReferencesJson ==
    /\ pc = "done"
    /\ cpc \in {"done", "returned_false"}
    /\ \E have_metadata \in BOOLEAN :
         IF have_metadata /\ citations /\ metadata_exists /\ ~references_unchanged
         THEN /\ paper_files' = (paper_files \ {ReferencesTmp}) \cup {ReferencesFile}
              /\ incomplete' = incomplete \ {ReferencesTmp, ReferencesFile}
         ELSE UNCHANGED <<paper_files, incomplete>>
    /\ cpc' = "updated"
    /\ UNCHANGED <<orchestratorVars, citations_cache, citations>>
    /\ UNCHANGED <<poolVars, fetchVars, scratchVars, cancelled, fileVars, clientVars>>

\* ------------------------------------------------------------ a second run
\* The local variables of a new call of _process_single_paper (scraper.py:561-574);
\* the files of the first run stay where they are.
NewCall ==
    /\ pc' = "start"
    /\ version' = 1
    /\ downloaded_versions' = <<>>
    /\ idx' = 1
    /\ attempted' = <<>>
    /\ extracted' = <<>>
    /\ result' = "none"
    /\ exc' = "none"

\* What a run has left on disk for the paper; clean: no step of the run raised and
\* every download of an existing version returned its file.
OnDisk(clean) ==
    [paper_files |-> paper_files, tex_dir |-> tex_dir, cache_files |-> cache_files,
     version_temp |-> version_temp, temp_dir |-> temp_dir, clean |-> clean]

RunClean ==
    /\ exc = "none"
    /\ \A i \in 1..Len(attempted) :
          attempted[i].version <= Len(remote)
              => (attempted[i].outcome = "path" /\ ~attempted[i].empty)

\* scraper.py:463-475: a later run of download_and_process drops a paper whose
\* metadata.json exists and hands every other paper to a worker again.
Rerun ==
    /\ pc = "done"
    /\ run < MaxRuns
    /\ run' = run + 1
    /\ previous_run' = OnDisk(RunClean)
    /\ IF MetadataFile \in paper_files
       THEN /\ pc' = "filtered"                 \* no call is made for the paper
            /\ attempted' = <<>>
            /\ extracted' = <<>>
            /\ UNCHANGED <<version, downloaded_versions, idx, result, exc>>
       ELSE NewCall
    /\ UNCHANGED <<remote, paper_dir, paper_files, tex_dir, cache_files, version_temp,
                   temp_dir, incomplete, citations_cache>>
    /\ UNCHANGED <<poolVars, fetchVars, stageVars, scratchVars, cancelled, fileVars, clientVars>>

\* scraper.py:918-935: single-paper mode (-p) calls _process_single_paper without
\* the filter of download_and_process.
RerunSinglePaper ==
    /\ pc = "done"
    /\ run < MaxRuns
    /\ run' = run + 1
    /\ previous_run' = OnDisk(RunClean)
    /\ NewCall
    /\ UNCHANGED <<remote, paper_dir, paper_files, tex_dir, cache_files, version_temp,
                   temp_dir, incomplete, citations_cache>>
    /\ UNCHANGED <<poolVars, fetchVars, stageVars, scratchVars, cancelled, fileVars, clientVars>>

\* ------------------------------------- arxiv_client.py: download_all_versions
\* arxiv_client.py:159-162: arxiv.Search and next(client.results(search)) for
\* <base>v<n>: the entry, StopIteration, or another exception of the library.
lookup(n) == IF n <= Len(remote) THEN {"found", "error"} ELSE {"StopIteration", "error"}

\* arxiv_client.py:187: paper.download_source returns a path whose file exists,
\* raises, or returns a path whose file is absent.
download_source == {"path", "raise", "missing"}

\* arxiv_client.py:165-171: the tag 'v' + <number of the entry id>, as its number.
version_tag(n) == n

\* Mutant: the skip test is left out.
skipped_never(tag) == FALSE

\* arxiv_client.py:175  `skip_versions and version_tag and version_tag in skip_versions`
skipped(tag) == skip_versions # {} /\ tag \in skip_versions

\* arxiv_client.py:195  `if downloaded_path and os.path.exists(downloaded_path)`
download_ok(r) == r = "path"

FetchStep(outcome, empty, stop) ==
    /\ fetched' = Append(fetched, [version |-> v, outcome |-> outcome, empty |-> empty])
    /\ IF stop THEN fpc' = "done" /\ UNCHANGED v
               ELSE v' = v + 1 /\ UNCHANGED fpc

\* arxiv_client.py:156-201: one iteration of the version loop.
FetchVersion ==
    /\ fpc = "loop"
    /\ v <= max_versions
    /\ \E l \in lookup(v) :
         IF l # "found"
         THEN /\ FetchStep(l, FALSE, TRUE)                                  \* 162 break, 203
              /\ UNCHANGED <<results, save_dir>>
         ELSE IF skipped(version_tag(v))
         THEN /\ FetchStep("skipped", FALSE, FALSE)                         \* 182 continue
              /\ UNCHANGED <<results, save_dir>>
         ELSE \E r \in download_source, empty \in BOOLEAN :
                /\ empty => (r = "path" /\ Cardinality(empty_downloads(fetched)) < MaxEmpty)
                /\ FetchStep(r, empty, ~download_ok(r))              \* 198, 201 break
                /\ IF download_ok(r)
                   THEN /\ results' = Append(results, version_tag(v))
                        /\ save_dir' = save_dir \cup {v}
                   ELSE UNCHANGED <<results, save_dir>>
    /\ UNCHANGED <<max_versions, skip_versions>>
    /\ UNCHANGED <<paperVars, poolVars, stageVars, scratchVars, cancelled, fileVars, clientVars>>

\* arxiv_client.py:156/206: the range is exhausted and results returned.
FetchLimit ==
    /\ fpc = "loop"
    /\ v > max_versions
    /\ fpc' = "done"
    /\ UNCHANGED <<v, max_versions, skip_versions, results, save_dir, fetched>>
    /\ UNCHANGED <<paperVars, poolVars, stageVars, scratchVars, cancelled, fileVars, clientVars>>

\* ------------------------------------------- download_and_process (the pool)
Papers == 1..NumPapers
Workers == 1..NumWorkers

\* What one call of _process_single_paper hands to its caller: return True (693),
\* return False (640, 698), or the exception of os.makedirs at 566.
process_single_paper_outcomes == {"True", "False", "raised"}

\* scraper.py:467-475: the paper ids without metadata.json, in the order given.
papers_to_process == SelectSeq([i \in 1..NumPapers |-> i], LAMBDA p : p \notin already_done)

Submitted == {papers_to_process[i] : i \in 1..Len(papers_to_process)}

\* Mutant: the counter is raised by two.
increment_stat_twice(s, stat_name, read) == [s EXCEPT ![stat_name] = read + 2]

\* PerformanceMonitor.increment_stat (performance.py:88-91), the write half of +=.
increment_stat(s, stat_name, read) == [s EXCEPT ![stat_name] = read + 1]

\* scraper.py:509-510: the executor is created and every task submitted.
Submit ==
    /\ dpc = "start"
    /\ queue' = papers_to_process
    /\ dpc' = "collect"
    /\ UNCHANGED <<already_done, wpc, wpaper, wsuccess, wtmp, process_lock, stats,
                   processed_count, future, collected>>
    /\ UNCHANGED <<paperVars, fetchVars, stageVars, scratchVars, cancelled, fileVars, clientVars>>

\* ThreadPoolExecutor: an idle worker takes the oldest pending task.
WorkerTake(w) ==
    /\ dpc = "collect"
    /\ wpc[w] = "idle"
    /\ queue # <<>>
    /\ wpaper' = [wpaper EXCEPT ![w] = Head(queue)]
    /\ queue' = Tail(queue)
    /\ wpc' = [wpc EXCEPT ![w] = "run"]
    /\ UNCHANGED <<dpc, already_done, wsuccess, wtmp, process_lock, stats,
                   processed_count, future, collected>>
    /\ UNCHANGED <<paperVars, fetchVars, stageVars, scratchVars, cancelled, fileVars, clientVars>>

\* scraper.py:483-487 and 504-506: the call of _process_single_paper; an exception
\* it raises is caught at 504 and the task returns False without touching a counter.
\* A call that is going to return True has written metadata.json and is at
\* incr_error('metadata_files_written') (scraper.py:655).
WorkerRun(w) ==
    /\ wpc[w] = "run"
    /\ \E out \in process_single_paper_outcomes :
         IF out = "raised"
         THEN /\ future' = [future EXCEPT ![wpaper[w]] = Append(@, "False")]
              /\ wpc' = [wpc EXCEPT ![w] = "idle"]
              /\ wpaper' = [wpaper EXCEPT ![w] = 0]
              /\ UNCHANGED wsuccess
         ELSE /\ wsuccess' = [wsuccess EXCEPT ![w] = (out = "True")]
              /\ wpc' = [wpc EXCEPT ![w] = IF out = "True" THEN "read_written"
                                                           ELSE "acquire"]
              /\ UNCHANGED <<future, wpaper>>
    /\ UNCHANGED <<dpc, already_done, queue, wtmp, process_lock, stats,
                   processed_count, collected>>
    /\ UNCHANGED <<paperVars, fetchVars, stageVars, scratchVars, cancelled, fileVars, clientVars>>

\* scraper.py:655 and performance.py:84-86: the read of
\* self.stats['metadata_files_written'] += 1, made by the worker thread inside
\* _process_single_paper, before process_lock is asked for.
WorkerReadWritten(w) ==
    /\ wpc[w] = "read_written"
    /\ wtmp' = [wtmp EXCEPT ![w] = stats["metadata_files_written"]]
    /\ wpc' = [wpc EXCEPT ![w] = "write_written"]
    /\ UNCHANGED <<dpc, already_done, queue, wpaper, wsuccess, process_lock, stats,
                   processed_count, future, collected>>
    /\ UNCHANGED <<paperVars, fetchVars, stageVars, scratchVars, cancelled, fileVars, clientVars>>

\* scraper.py:655  the write of the same +=; the call then returns True (693).
WorkerWriteWritten(w) ==
    /\ wpc[w] = "write_written"
    /\ stats' = increment_stat(stats, "metadata_files_written", wtmp[w])
    /\ wpc' = [wpc EXCEPT ![w] = "acquire"]
    /\ UNCHANGED <<dpc, already_done, queue, wpaper, wsuccess, wtmp, process_lock,
                   processed_count, future, collected>>
    /\ UNCHANGED <<paperVars, fetchVars, stageVars, scratchVars, cancelled, fileVars, clientVars>>

\* scraper.py:489  `with process_lock:`
WorkerAcquire(w) ==
    /\ wpc[w] = "acquire"
    /\ process_lock = 0
    /\ process_lock' = w
    /\ wpc' = [wpc EXCEPT ![w] = "read_total"]
    /\ UNCHANGED <<dpc, already_done, queue, wpaper, wsuccess, wtmp, stats,
                   processed_count, future, collected>>
    /\ UNCHANGED <<paperVars, fetchVars, stageVars, scratchVars, cancelled, fileVars, clientVars>>

\* scraper.py:490  increment_stat('total_papers'): the read of self.stats[...] += 1
WorkerReadTotal(w) ==
    /\ wpc[w] = "read_total"
    /\ wtmp' = [wtmp EXCEPT ![w] = stats["total_papers"]]
    /\ wpc' = [wpc EXCEPT ![w] = "write_total"]
    /\ UNCHANGED <<dpc, already_done, queue, wpaper, wsuccess, process_lock, stats,
                   processed_count, future, collected>>
    /\ UNCHANGED <<paperVars, fetchVars, stageVars, scratchVars, cancelled, fileVars, clientVars>>

\* scraper.py:490  the write of the same +=
WorkerWriteTotal(w) ==
    /\ wpc[w] = "write_total"
    /\ stats' = increment_stat(stats, "total_papers", wtmp[w])
    /\ wpc' = [wpc EXCEPT ![w] = "read_result"]
    /\ UNCHANGED <<dpc, already_done, queue, wpaper, wsuccess, wtmp, process_lock,
                   processed_count, future, collected>>
    /\ UNCHANGED <<paperVars, fetchVars, stageVars, scratchVars, cancelled, fileVars, clientVars>>

\* scraper.py:491-496: processed_count and the read of the outcome's counter.
WorkerReadResult(w) ==
    /\ wpc[w] = "read_result"
    /\ IF wsuccess[w]
       THEN /\ processed_count' = processed_count + 1
            /\ wtmp' = [wtmp EXCEPT ![w] = stats["successful_papers"]]
       ELSE /\ wtmp' = [wtmp EXCEPT ![w] = stats["failed_papers"]]
            /\ UNCHANGED processed_count
    /\ wpc' = [wpc EXCEPT ![w] = "write_result"]
    /\ UNCHANGED <<dpc, already_done, queue, wpaper, wsuccess, process_lock, stats,
                   future, collected>>
    /\ UNCHANGED <<paperVars, fetchVars, stageVars, scratchVars, cancelled, fileVars, clientVars>>

\* scraper.py:493/496 the write, then 503: the lock is released and success returned.
WorkerWriteResult(w) ==
    /\ wpc[w] = "write_result"
    /\ stats' = increment_stat(stats, IF wsuccess[w] THEN "successful_papers"
                                                     ELSE "failed_papers", wtmp[w])
    /\ process_lock' = 0
    /\ future' = [future EXCEPT ![wpaper[w]] =
                     Append(@, IF wsuccess[w] THEN "True" ELSE "False")]
    /\ wpc' = [wpc EXCEPT ![w] = "idle"]
    /\ wpaper' = [wpaper EXCEPT ![w] = 0]
    /\ UNCHANGED <<dpc, already_done, queue, wsuccess, wtmp, processed_count, collected>>
    /\ UNCHANGED <<paperVars, fetchVars, stageVars, scratchVars, cancelled, fileVars, clientVars>>

\* scraper.py:513-518: as_completed yields a finished future; its result is read.
Collect(p) ==
    /\ dpc = "collect"
    /\ p \in Submitted \ collected
    /\ future[p] # <<>>
    /\ collected' = collected \cup {p}
    /\ UNCHANGED <<dpc, already_done, queue, wpc, wpaper, wsuccess, wtmp, process_lock,
                   stats, processed_count, future>>
    /\ UNCHANGED <<paperVars, fetchVars, stageVars, scratchVars, cancelled, fileVars, clientVars>>

\* scraper.py:846-857, 873-875: the user cancels the run while the download stage is
\* at work. Python raises KeyboardInterrupt in the main thread, which is in
\* thread.join() (857); run logs it at 873-875. download_and_process was started in
\* the thread Stage-Download (819-822, 848), so its handler at 519-522 is not
\* entered and neither the driver nor the pool is told anything.
Interrupt ==
    /\ dpc = "collect"
    /\ ~cancelled
    /\ cancelled' = TRUE
    /\ UNCHANGED <<paperVars, poolVars, fetchVars, stageVars, scratchVars, fileVars,
                   clientVars>>

\* scraper.py:509/524: every future was seen and the `with` block is left.
DriverReturn ==
    /\ dpc = "collect"
    /\ collected = Submitted
    /\ queue = <<>>
    /\ \A w \in Workers : wpc[w] = "idle"
    /\ dpc' = "returned"
    /\ UNCHANGED <<already_done, queue, wpc, wpaper, wsuccess, wtmp, process_lock,
                   stats, processed_count, future, collected>>
    /\ UNCHANGED <<paperVars, fetchVars, stageVars, scratchVars, cancelled, fileVars, clientVars>>

\* ------------------------------------------- scratch directories of a paper
\* Strings are sequences of one-character strings (and of the literal "temp_").
DigitChars == <<"0", "1", "2", "3", "4", "5", "6", "7", "8", "9">>

RECURSIVE Pow10(_)
Pow10(e) == IF e = 0 THEN 1 ELSE 10 * Pow10(e - 1)

\* f"{n:0<width>d}" for n below 10^width.
Padded(n, width) == [i \in 1..width |-> DigitChars[((n \div Pow10(width - i)) % 10) + 1]]

\* str(n) for n below 100 (f"..._{version_num}", version_num at most the safety limit).
Str(n) == IF n < 10 THEN <<DigitChars[n + 1]>>
                    ELSE <<DigitChars[(n \div 10) + 1], DigitChars[(n % 10) + 1]>>

\* config.py:57-72 on the month string f"{year}-{mon:02d}" of scraper.py:90: the
\* last two digits of the year, the month, a dot, the paper number on five digits.
format_arxiv_id(year, mon, paper_id) ==
    Padded(year % 100, 2) \o Padded(mon, 2) \o <<".">> \o Padded(paper_id, 5)

\* Mutant: the folder name keeps only the part before the dot.
format_folder_name_prefix(arxiv_id) == SubSeq(arxiv_id, 1, 4)

\* config.py:100-110  arxiv_id.replace('.', '-')
format_folder_name(arxiv_id) ==
    [i \in 1..Len(arxiv_id) |-> IF arxiv_id[i] = "." THEN "-" ELSE arxiv_id[i]]

\* scraper.py:569  cache_dir/temp_<folder_name>
temp_dir_path(paper_id) == <<"temp_">> \o format_folder_name(paper_id)

\* scraper.py:597  cache_dir/temp_<folder_name>_<version_num>
version_temp_dir(paper_id, version_num) ==
    <<"temp_">> \o format_folder_name(paper_id) \o <<"_">> \o Str(version_num)

\* scraper.py:82-101: the ids generate_paper_ids yields for a range over two months
\* with FirstPaperNumber..FirstPaperNumber+NumPapers-1 taken in each.
PaperIds ==
    {format_arxiv_id(2024, mon, n) :
        mon \in {2, 3}, n \in FirstPaperNumber..(FirstPaperNumber + NumPapers - 1)}

\* scraper.py:597-598, 600, 629: the worker creates cache/temp_<folder>_<N>, has the
\* archive extracted into it and, when the version is collected, removes it.
TouchVersionTemp(w) ==
    /\ snext[w] \in 1..MaxRemote
    /\ touched' = touched \cup {[path |-> version_temp_dir(spaper[w], snext[w]),
                                 paper |-> spaper[w]]}
    /\ snext' = [snext EXCEPT ![w] = @ + 1]
    /\ UNCHANGED spaper
    /\ UNCHANGED <<paperVars, poolVars, fetchVars, stageVars, cancelled, fileVars, clientVars>>

\* scraper.py:633-640, 693: the processing loop is over and the call returns.
ScratchReturn(w) ==
    /\ snext[w] >= 1
    /\ snext' = [snext EXCEPT ![w] = 0]
    /\ UNCHANGED <<spaper, touched>>
    /\ UNCHANGED <<paperVars, poolVars, fetchVars, stageVars, cancelled, fileVars, clientVars>>

\* scraper.py:695-697: the handler tests and removes cache/temp_<folder>.
HandlerCleanup(w) ==
    /\ snext[w] >= 1
    /\ touched' = touched \cup {[path |-> temp_dir_path(spaper[w]), paper |-> spaper[w]]}
    /\ snext' = [snext EXCEPT ![w] = 0]
    /\ UNCHANGED spaper
    /\ UNCHANGED <<paperVars, poolVars, fetchVars, stageVars, cancelled, fileVars, clientVars>>

\* ------------------------------ FileProcessor on one downloaded file
\* The files of a set in the order os.walk gives them (some fixed order).
RECURSIVE walk_order(_)
walk_order(files) ==
    IF files = {} THEN <<>>
    ELSE LET f == CHOOSE x \in files : TRUE
         IN <<f>> \o walk_order(files \ {f})

\* Mutant: the walk is given up at the first file that raises.
after_file_error_stop(i, files) == Len(files) + 1

\* file_processor.py:185-186, 260-261: the except is inside the loop over the
\* files, so the loop goes on with the next file.
after_file_error(i, files) == i + 1

\* Mutant: the file is copied into dest_dir itself.
dest_path_flat(f) == File(<<>>, f.name, f.size)

\* file_processor.py:239-240, 256: dest_dir joined with the path relative to
\* source_dir; copy2 copies the content.
dest_path(f) == File(f.dir, f.name, f.size)

\* scraper.py:600 -> file_processor.py:21-143: extract_archive, whole.
ExtractArchive ==
    /\ tpc = "extract"
    /\ LET x == extract_archive(archive)
       IN /\ extract_dir' = x.out
          /\ source_tree' = x.out
          /\ ops_made' = x.ops
          /\ archive_on_disk' = ~x.removed
          /\ success' = IF x.ok THEN "True" ELSE "False"
          /\ walk' = IF x.ok THEN walk_order(x.out) ELSE <<>>
          /\ tpc' = IF x.ok THEN "strip" ELSE "failed"
    /\ UNCHANGED <<archive, wpos, files_removed, bytes_saved, removal_failed, skip_arg,
                   all_files, dest_dir, copied, skipped_bib, copy_failed, size_unread>>
    /\ UNCHANGED <<paperVars, poolVars, fetchVars, stageVars, scratchVars, cancelled,
                   clientVars>>

\* file_processor.py:176-186: remove_figures, one file of the walk.
RemoveFile ==
    /\ tpc = "strip"
    /\ wpos <= Len(walk)
    /\ LET file == walk[wpos]
       IN IF is_figure(file)
          THEN \E raises \in BOOLEAN :
                 IF raises
                 THEN /\ removal_failed' = removal_failed \cup {file}
                      /\ wpos' = after_file_error(wpos, walk)
                      /\ UNCHANGED <<extract_dir, files_removed, bytes_saved>>
                 ELSE /\ extract_dir' = extract_dir \ {file}
                      /\ files_removed' = files_removed + 1
                      /\ bytes_saved' = bytes_saved + file.size
                      /\ wpos' = wpos + 1
                      /\ UNCHANGED removal_failed
          ELSE /\ wpos' = wpos + 1
               /\ UNCHANGED <<extract_dir, files_removed, bytes_saved, removal_failed>>
    /\ UNCHANGED <<tpc, archive, archive_on_disk, success, ops_made, source_tree, walk, skip_arg,
                   all_files, dest_dir, copied, skipped_bib, copy_failed, size_unread>>
    /\ UNCHANGED <<paperVars, poolVars, fetchVars, stageVars, scratchVars, cancelled,
                   clientVars>>

\* file_processor.py:188-191: remove_figures returns (files_removed, bytes_saved).
RemoveFiguresReturn ==
    /\ tpc = "strip"
    /\ wpos > Len(walk)
    /\ tpc' = "stripped"
    /\ UNCHANGED <<archive, archive_on_disk, extract_dir, success, ops_made, source_tree, walk,
                   wpos, files_removed, bytes_saved, removal_failed, skip_arg,
                   all_files, dest_dir, copied, skipped_bib, copy_failed, size_unread>>
    /\ UNCHANGED <<paperVars, poolVars, fetchVars, stageVars, scratchVars, cancelled,
                   clientVars>>

\* file_processor.py:226-233: copy_tex_and_bib_files creates dest_dir (outside any
\* try: its exception is the caller's) and lists the .tex and .bib files.
CollectFiles ==
    /\ tpc = "stripped"
    /\ \E raises \in BOOLEAN :
         IF raises
         THEN /\ tpc' = "raised"
              /\ UNCHANGED <<all_files, wpos>>
         ELSE /\ all_files' = SelectSeq(walk_order(extract_dir), is_tex_or_bib)
              /\ wpos' = 1
              /\ tpc' = "collect"
    /\ UNCHANGED <<archive, archive_on_disk, extract_dir, success, ops_made, source_tree, walk,
                   files_removed, bytes_saved, removal_failed, skip_arg, dest_dir, copied,
                   skipped_bib, copy_failed, size_unread>>
    /\ UNCHANGED <<paperVars, poolVars, fetchVars, stageVars, scratchVars, cancelled,
                   clientVars>>

\* file_processor.py:237-261: copy_tex_and_bib_files, one file of all_files.
\* raises names the call that raises: os.makedirs of the parent (243), getsize
\* (249, swallowed at 253-255: the file is then copied) or copy2 (256).
CopyFile ==
    /\ tpc = "collect"
    /\ wpos <= Len(all_files)
    /\ LET file_path == all_files[wpos]
       IN \E raises \in {"nothing", "makedirs", "getsize", "copy2"} :
            IF raises = "makedirs"
            THEN /\ copy_failed' = copy_failed \cup {file_path}
                 /\ wpos' = after_file_error(wpos, all_files)
                 /\ UNCHANGED <<dest_dir, copied, skipped_bib, size_unread>>
            ELSE IF raises = "getsize"
            THEN /\ skip_arg
                 /\ suffix(file_path.name) = ".bib"
                 /\ size_unread' = size_unread \cup {file_path}
                 /\ dest_dir' = dest_dir \cup {dest_path(file_path)}
                 /\ copied' = copied + 1
                 /\ wpos' = wpos + 1
                 /\ UNCHANGED <<skipped_bib, copy_failed>>
            ELSE IF skip_bib(file_path, skip_arg, bib_size_threshold)
            THEN /\ raises = "nothing"
                 /\ skipped_bib' = skipped_bib + 1
                 /\ wpos' = wpos + 1                                 \* continue
                 /\ UNCHANGED <<dest_dir, copied, copy_failed, size_unread>>
            ELSE IF raises = "copy2"
            THEN /\ copy_failed' = copy_failed \cup {file_path}
                 /\ wpos' = after_file_error(wpos, all_files)
                 /\ UNCHANGED <<dest_dir, copied, skipped_bib, size_unread>>
            ELSE /\ dest_dir' = dest_dir \cup {dest_path(file_path)}
                 /\ copied' = copied + 1
                 /\ wpos' = wpos + 1
                 /\ UNCHANGED <<skipped_bib, copy_failed, size_unread>>
    /\ UNCHANGED <<tpc, archive, archive_on_disk, extract_dir, success, ops_made, source_tree,
                   walk, files_removed, bytes_saved, removal_failed, skip_arg,
                   all_files>>
    /\ UNCHANGED <<paperVars, poolVars, fetchVars, stageVars, scratchVars, cancelled,
                   clientVars>>

\* file_processor.py:263-271: copy_tex_and_bib_files returns copied.
CollectReturn ==
    /\ tpc = "collect"
    /\ wpos > Len(all_files)
    /\ tpc' = "done"
    /\ UNCHANGED <<archive, archive_on_disk, extract_dir, success, ops_made, source_tree, walk,
                   wpos, files_removed, bytes_saved, removal_failed, skip_arg,
                   all_files, dest_dir, copied, skipped_bib, copy_failed, size_unread>>
    /\ UNCHANGED <<paperVars, poolVars, fetchVars, stageVars, scratchVars, cancelled,
                   clientVars>>

\* ------------------- SemanticScholarClient.get_paper_references and its caller
\* Python values: a dict (a function from keys), a list, None.
Dict(f) == [type |-> "dict", value |-> f]
List(l) == [type |-> "list", value |-> l]
NoneValue == [type |-> "NoneType"]

\* Truth value of a Python value (`not references`).
truthy(x) ==
    CASE x.type = "dict" -> DOMAIN x.value # {}
      [] x.type = "list" -> x.value # <<>>
      [] OTHER -> FALSE

\* isinstance(x, list)
is_list(x) == x.type = "list"

\* One element of data['references']: externalIds.ArXiv as the pieces ':' and 'v'
\* split it into (<<>> when absent), paperId, externalIds.DOI and title ("" when
\* absent).
Ref(arxiv, ssid, doi, title) == [arxiv |-> arxiv, ssid |-> ssid, doi |-> doi, title |-> title]

RefArxiv == Ref(<<"2301.00001">>, "s1", "", "A")
RefArxivVersioned == Ref(<<"arXiv", ":", "2301.00001", "v", "2">>, "s2", "", "A2")
RefSsOnly == Ref(<<>>, "s3", "10.1/x", "B")
RefDoiOnly == Ref(<<>>, "", "10.1/y", "C")
RefBare == Ref(<<>>, "", "", "D")
RefSamples == {RefArxiv, RefArxivVersioned, RefSsOnly, RefDoiOnly, RefBare}

\* The answers of the API for the paper: lists of at most MaxRefs references.
Bodies == UNION {[1..n -> RefSamples] : n \in 0..MaxRefs}

\* semantic_scholar_client.py:126-127  arxiv_raw.split(':')[-1]
after_last_colon(raw) ==
    LET at == {i \in 1..Len(raw) : raw[i] = ":"}
    IN IF at = {} THEN raw
       ELSE SubSeq(raw, (CHOOSE i \in at : \A j \in at : j <= i) + 1, Len(raw))

\* semantic_scholar_client.py:128  arxiv_raw.split('v')[0]
before_first_v(raw) ==
    LET at == {i \in 1..Len(raw) : raw[i] = "v"}
    IN IF at = {} THEN raw
       ELSE SubSeq(raw, 1, (CHOOSE i \in at : \A j \in at : i <= j) - 1)

\* semantic_scholar_client.py:117-146: the key of a reference: the arXiv id without
\* prefix and version, else the Semantic Scholar id, else the DOI, else a hash of
\* title and authors (the title stands for the hash).
stable_key(ref) ==
    IF ref.arxiv # <<>> THEN before_first_v(after_last_colon(ref.arxiv))
    ELSE IF ref.ssid # "" THEN <<"SS:", ref.ssid>>
    ELSE IF ref.doi # "" THEN <<"DOI:", ref.doi>>
    ELSE <<"HASH:", ref.title>>

\* semantic_scholar_client.py:148-155: the entry stored under the key.
entry(ref) == [title |-> ref.title, semantic_scholar_id |-> ref.ssid]

\* semantic_scholar_client.py:84-166: references_dict built from the answer, a later
\* reference replacing an earlier one of the same key.
references_dict(refs_data) ==
    [k \in {stable_key(refs_data[i]) : i \in 1..Len(refs_data)} |->
        LET at == {i \in 1..Len(refs_data) : stable_key(refs_data[i]) = k}
        IN entry(refs_data[CHOOSE i \in at : \A j \in at : j <= i])]

\* semantic_scholar_client.py:58, 67, 71, 82, 168: what one HTTP request ends in: a
\* 200 answer, 404, 429, or requests.exceptions.RequestException (raise_for_status
\* on another status included).
responses == {"200", "404", "429", "RequestException"}

\* semantic_scholar_client.py:46-177: one iteration of `for attempt in
\* range(MAX_RETRIES)`.
Request ==
    /\ rpc = "request"
    /\ attempt < MAX_RETRIES
    /\ \E response \in responses :
         /\ http' = Append(http, response)
         /\ CASE response = "200" ->
                   /\ references' = Dict(references_dict(body))         \* 166
                   /\ rpc' = "returned"
                   /\ UNCHANGED attempt
              [] response = "404" ->
                   /\ references' = Dict(<<>>)                          \* 69
                   /\ rpc' = "returned"
                   /\ UNCHANGED attempt
              [] response = "429" ->
                   /\ attempt' = attempt + 1                            \* 79 continue
                   /\ UNCHANGED <<references, rpc>>
              [] OTHER ->
                   IF attempt < MAX_RETRIES - 1                          \* 174
                   THEN /\ attempt' = attempt + 1
                        /\ UNCHANGED <<references, rpc>>
                   ELSE /\ references' = Dict(<<>>)                     \* 178
                        /\ rpc' = "returned"
                        /\ UNCHANGED attempt
    /\ UNCHANGED <<body, citation_entry>>
    /\ UNCHANGED <<paperVars, poolVars, fetchVars, stageVars, scratchVars, cancelled,
                   fileVars, metaVars, idVars>>

\* semantic_scholar_client.py:46, 178: range(MAX_RETRIES) is used up and the function
\* body ends with no return statement: the call returns None.
RangeExhausted ==
    /\ rpc = "request"
    /\ attempt >= MAX_RETRIES
    /\ references' = NoneValue
    /\ rpc' = "returned"
    /\ UNCHANGED <<attempt, body, http, citation_entry>>
    /\ UNCHANGED <<paperVars, poolVars, fetchVars, stageVars, scratchVars, cancelled,
                   fileVars, metaVars, idVars>>

\* scraper.py:210-216: fetch_citations replaces a value that is falsy or no list by
\* [] and stores it as citations[paper_id].
StoreCitations ==
    /\ rpc = "returned"
    /\ citation_entry' = IF ~truthy(references) \/ ~is_list(references)
                         THEN List(<<>>)
                         ELSE references
    /\ rpc' = "stored"
    /\ UNCHANGED <<attempt, body, http, references>>
    /\ UNCHANGED <<paperVars, poolVars, fetchVars, stageVars, scratchVars, cancelled,
                   fileVars, metaVars, idVars>>

\* ------------------------------------------------- ArxivScraper.fetch_metadata
\* The paper ids of the assigned range, in the order generate_paper_ids gives them.
Ids == 1..MaxIds

\* scraper.py:797-798  paper_ids[:self.max_papers]: the lengths of the list handed
\* to fetch_metadata, one batch or the whole range.
RequestedLengths == {batch_size, MaxIds}

\* The ids of the range the remote source may have no entry for.
MaybeUnknown == {1, batch_size + 1}

\* A dict from ids to where the entry came from.
entries(ids, origin) == [i \in ids |-> origin]

\* dict.update
update(d, e) == [i \in DOMAIN d \cup DOMAIN e |-> IF i \in DOMAIN e THEN e[i] ELSE d[i]]

\* arxiv_client.py:32-130: get_batch_metadata on one batch: the entries of the ids
\* the remote source knows, or nothing when the request failed MAX_RETRIES times
\* (the exception is logged at 122-128 and the loop left).
get_batch_metadata(batch, ok) ==
    IF ok THEN entries({batch[i] : i \in 1..Len(batch)} \cap remote_known, "remote")
          ELSE <<>>

\* scraper.py:123-135: the cache file is loaded; a cache with at least as many
\* entries as ids were asked for is returned as it is, otherwise the ids without
\* an entry are listed.
LoadMetadataCache ==
    /\ mpc = "start"
    /\ LET cached == IF metadata_cache.exists THEN entries(metadata_cache.keys, "cache")
                                              ELSE <<>>
       IN /\ metadata' = cached
          /\ loaded' = DOMAIN cached
          /\ IF metadata_cache.exists /\ Cardinality(DOMAIN cached) >= requested_ids
             THEN /\ mpc' = "returned"                                  \* 127-129
                  /\ UNCHANGED remaining_papers
             ELSE /\ remaining_papers' = SelectSeq([i \in 1..requested_ids |-> i],
                                                   LAMBDA pid : pid \notin DOMAIN cached)
                  /\ mpc' = "batch"
    /\ UNCHANGED <<requested_ids, remote_known, metadata_cache, batch_start, asked,
                   failed_batches, mrun>>
    /\ UNCHANGED <<paperVars, poolVars, fetchVars, stageVars, scratchVars, cancelled,
                   fileVars, refVars, idVars>>

\* scraper.py:138-149: one batch of remaining_papers is fetched, merged into
\* metadata and the cache file rewritten.
FetchBatch ==
    /\ mpc = "batch"
    /\ batch_start < Len(remaining_papers)
    /\ LET last == IF batch_start + batch_size < Len(remaining_papers)
                   THEN batch_start + batch_size ELSE Len(remaining_papers)
           batch == SubSeq(remaining_papers, batch_start + 1, last)
       IN \E ok \in BOOLEAN :
            /\ metadata' = update(metadata, get_batch_metadata(batch, ok))
            /\ metadata_cache' = [exists |-> TRUE,
                                  keys |-> DOMAIN update(metadata, get_batch_metadata(batch, ok))]
            /\ asked' = asked \cup {batch[i] : i \in 1..Len(batch)}
            /\ failed_batches' = failed_batches + (IF ok THEN 0 ELSE 1)
    /\ batch_start' = batch_start + batch_size
    /\ UNCHANGED <<mpc, requested_ids, remote_known, remaining_papers, loaded, mrun>>
    /\ UNCHANGED <<paperVars, poolVars, fetchVars, stageVars, scratchVars, cancelled,
                   fileVars, refVars, idVars>>

\* scraper.py:151-154: the loop over the batches is over, metadata is returned.
ReturnMetadata ==
    /\ mpc = "batch"
    /\ batch_start >= Len(remaining_papers)
    /\ mpc' = "returned"
    /\ UNCHANGED <<requested_ids, remote_known, metadata_cache, metadata,
                   remaining_papers, batch_start, asked, loaded, failed_batches, mrun>>
    /\ UNCHANGED <<paperVars, poolVars, fetchVars, stageVars, scratchVars, cancelled,
                   fileVars, refVars, idVars>>

\* scraper.py:793-814: a later run of the scraper for the same student, after the
\* earlier one returned or was stopped between two batches, with its own
\* max_papers: fetch_metadata is called again over the same cache file.
ResumeMetadata ==
    /\ mpc \in {"batch", "returned"}
    /\ mrun < MaxRuns
    /\ mrun' = mrun + 1
    /\ requested_ids' \in RequestedLengths
    /\ metadata' = <<>>
    /\ remaining_papers' = <<>>
    /\ batch_start' = 0
    /\ asked' = {}
    /\ loaded' = {}
    /\ failed_batches' = 0
    /\ mpc' = "start"
    /\ UNCHANGED <<remote_known, metadata_cache>>
    /\ UNCHANGED <<paperVars, poolVars, fetchVars, stageVars, scratchVars, cancelled,
                   fileVars, refVars, idVars>>

\* ------------------------------------------- ArxivScraper.generate_paper_ids
\* The list paper_ids is kept as the runs of consecutive paper numbers of one
\* month the inner loop appends: [year, mon, first, last] stands for the ids
\* format_arxiv_id(year, mon, first), ..., format_arxiv_id(year, mon, last).
Segment(year, mon, first, last) == [year |-> year, mon |-> mon, first |-> first, last |-> last]

\* len(paper_ids)
RECURSIVE len(_)
len(ids) ==
    IF ids = <<>> THEN 0
    ELSE (ids[1].last - ids[1].first + 1) + len(Tail(ids))

\* Mutant: the month after December is month 13 of the same year.
next_month_no_wrap(year, mon) == <<year, mon + 1>>

\* scraper.py:111-115: the month after (year, mon).
next_month(year, mon) == IF mon + 1 > 12 THEN <<year + 1, 1>> ELSE <<year, mon + 1>>

\* scraper.py:87  the condition of the while loop.
not_past_end_month ==
    \/ current_year < paper_range.end_year
    \/ current_year = paper_range.end_year /\ current_mon <= paper_range.end_mon

\* scraper.py:87-115: one iteration of the while loop, the inner loop over
\* range(id_start, id_end + 1) whole: it appends the ids of the month and returns
\* as soon as the list has more than IdLimit entries.
GenerateMonth ==
    /\ gpc = "loop"
    /\ not_past_end_month
    /\ LET id_start == IF current_year = paper_range.start_year
                          /\ current_mon = paper_range.start_mon
                       THEN paper_range.start_id ELSE 0
           id_end == IF current_year = paper_range.end_year
                        /\ current_mon = paper_range.end_mon
                     THEN paper_range.end_id ELSE LastIdOfMonth
           n == IF id_end >= id_start THEN id_end - id_start + 1 ELSE 0
           room == IdLimit + 1 - len(paper_ids)      \* appends until len > IdLimit
       IN IF n >= room
          THEN /\ paper_ids' = Append(paper_ids, Segment(current_year, current_mon,
                                                         id_start, id_start + room - 1))
               /\ gpc' = "returned"                                    \* 106
               /\ UNCHANGED <<current_year, current_mon>>
          ELSE /\ paper_ids' = IF n = 0 THEN paper_ids
                               ELSE Append(paper_ids, Segment(current_year, current_mon,
                                                              id_start, id_end))
               /\ current_year' = next_month(current_year, current_mon)[1]
               /\ current_mon' = next_month(current_year, current_mon)[2]
               /\ UNCHANGED gpc
    /\ UNCHANGED paper_range
    /\ UNCHANGED <<paperVars, poolVars, fetchVars, stageVars, scratchVars, cancelled,
                   fileVars, refVars, metaVars>>

\* scraper.py:87, 117-119: the loop condition is false, paper_ids is returned.
ReturnPaperIds ==
    /\ gpc = "loop"
    /\ ~not_past_end_month
    /\ gpc' = "returned"
    /\ UNCHANGED <<paper_range, current_year, current_mon, paper_ids>>
    /\ UNCHANGED <<paperVars, poolVars, fetchVars, stageVars, scratchVars, cancelled,
                   fileVars, refVars, metaVars>>

\* int() of a string of digits.
RECURSIVE int(_)
int(digits) ==
    IF digits = <<>> THEN 0
    ELSE 10 * int(SubSeq(digits, 1, Len(digits) - 1))
         + (CHOOSE d \in 0..9 : DigitChars[d + 1] = digits[Len(digits)])

\* config.py:74-97  parse_arxiv_id: the part before the dot is YYMM, read as the
\* month 20YY-MM, the part after it is the paper number.
parse_arxiv_id(arxiv_id) ==
    LET dot == CHOOSE i \in 1..Len(arxiv_id) : arxiv_id[i] = "."
        year_month == SubSeq(arxiv_id, 1, dot - 1)
    IN <<int(<<"2", "0">> \o SubSeq(year_month, 1, 2)),
         int(SubSeq(year_month, 3, Len(year_month))),
         int(SubSeq(arxiv_id, dot + 1, Len(arxiv_id)))>>

\* --------------------------------------------------------- specifications
RemoteStates ==
    UNION {[1..n -> ArchiveSamples] : n \in 0..MaxRemote}
        \cup {[i \in 1..(SafetyLimit + 1) |-> TarGood]}

PaperIdle ==
    /\ version = 1
    /\ downloaded_versions = <<>>
    /\ idx = 1
    /\ attempted = <<>>
    /\ paper_dir = FALSE
    /\ paper_files = {}
    /\ tex_dir = <<>>
    /\ cache_files = {}
    /\ version_temp = <<>>
    /\ temp_dir = FALSE
    /\ result = "none"
    /\ exc = "none"
    /\ incomplete = {}
    /\ extracted = <<>>
    /\ run = 1
    /\ previous_run = [paper_files |-> {}, tex_dir |-> <<>>, cache_files |-> {},
                       version_temp |-> <<>>, temp_dir |-> FALSE, clean |-> TRUE]

StageOff ==
    /\ cpc = "off"
    /\ citations = FALSE

\* Before extract_archive is called on a downloaded file; a new version_temp_dir
\* and a new dest_dir.
FilesIdle ==
    /\ archive_on_disk = TRUE
    /\ extract_dir = {}
    /\ success = "none"
    /\ ops_made = <<>>
    /\ source_tree = {}
    /\ walk = <<>>
    /\ wpos = 1
    /\ files_removed = 0
    /\ bytes_saved = 0
    /\ removal_failed = {}
    /\ all_files = <<>>
    /\ dest_dir = {}
    /\ copied = 0
    /\ skipped_bib = 0
    /\ copy_failed = {}
    /\ size_unread = {}

FilesOff ==
    /\ tpc = "off"
    /\ archive = TarGood
    /\ skip_arg = skip_large_bib
    /\ FilesIdle

RefOff ==
    /\ rpc = "off"
    /\ attempt = 0
    /\ body = <<>>
    /\ http = <<>>
    /\ references = [type |-> "unset"]
    /\ citation_entry = [type |-> "unset"]

MetaIdle ==
    /\ metadata = <<>>
    /\ remaining_papers = <<>>
    /\ batch_start = 0
    /\ asked = {}
    /\ loaded = {}
    /\ failed_batches = 0
    /\ mrun = 1

MetaOff ==
    /\ mpc = "off"
    /\ requested_ids = 0
    /\ remote_known = {}
    /\ metadata_cache = [exists |-> FALSE, keys |-> {}]
    /\ MetaIdle

IdsOff ==
    /\ gpc = "off"
    /\ paper_range = [start_year |-> 0, start_mon |-> 0, start_id |-> 0,
                      end_year |-> 0, end_mon |-> 0, end_id |-> 0]
    /\ current_year = 0
    /\ current_mon = 0
    /\ paper_ids = <<>>

ClientOff == RefOff /\ MetaOff /\ IdsOff

ScratchOff ==
    /\ spaper = [w \in Workers |-> <<>>]
    /\ snext = [w \in Workers |-> 0]
    /\ touched = {}
    /\ cancelled = FALSE

PoolQuiet ==
    /\ queue = <<>>
    /\ wpc = [w \in Workers |-> "idle"]
    /\ wpaper = [w \in Workers |-> 0]
    /\ wsuccess = [w \in Workers |-> FALSE]
    /\ wtmp = [w \in Workers |-> 0]
    /\ process_lock = 0
    /\ stats = [total_papers |-> 0, successful_papers |-> 0, failed_papers |-> 0,
                metadata_files_written |-> 0]
    /\ processed_count = 0
    /\ future = [p \in Papers |-> <<>>]
    /\ collected = {}

PoolIdle ==
    /\ dpc = "start"
    /\ PoolQuiet

FetchIdle ==
    /\ v = 1
    /\ results = <<>>
    /\ save_dir = {}
    /\ fetched = <<>>

FetchOff ==
    /\ fpc = "off"
    /\ max_versions = DefaultMaxVersions
    /\ skip_versions = {}
    /\ FetchIdle

\* One call on a fresh paper directory: of _process_single_paper, or of
\* download_all_versions with its arguments max_versions and skip_versions.
Init ==
    /\ remote \in RemoteStates
    /\ PaperIdle
    /\ ScratchOff
    /\ FilesOff
    /\ ClientOff
    /\ citations_cache \in BOOLEAN
    /\ StageOff
    /\ already_done = {}
    /\ PoolIdle
    /\ \/ pc = "start" /\ FetchOff
       \/ /\ pc = "off"
          /\ fpc = "loop"
          /\ max_versions \in {MaxRemote - 1, DefaultMaxVersions}
          /\ skip_versions \in SUBSET (1..MaxRemote)
          /\ FetchIdle

Next ==
    \/ CreatePaperDir
    \/ DownloadVersion
    \/ DownloadLimit
    \/ ProcessVersion
    \/ CheckTexDir
    \/ OpenMetadata
    \/ DumpMetadata
    \/ SaveReferences
    \/ DumpReferences
    \/ ReplaceReferences
    \/ FetchVersion
    \/ FetchLimit

Spec == Init /\ [][Next]_vars

\* Up to MaxRuns processing runs of one paper over the same data directory; the
\* paper has at most MaxRerunRemote versions, so the safety limit is never met.
RerunRemoteStates == UNION {[1..n -> ArchiveSamples] : n \in 0..MaxRerunRemote}

InitRerun ==
    /\ remote \in RerunRemoteStates
    /\ PaperIdle
    /\ ScratchOff
    /\ FilesOff
    /\ ClientOff
    /\ citations_cache \in BOOLEAN
    /\ StageOff
    /\ already_done = {}
    /\ PoolIdle
    /\ pc = "start"
    /\ FetchOff

NextRerun ==
    \/ CreatePaperDir
    \/ DownloadVersion
    \/ ProcessVersion
    \/ CheckTexDir
    \/ OpenMetadata
    \/ DumpMetadata
    \/ SaveReferences
    \/ DumpReferences
    \/ ReplaceReferences
    \/ Rerun
    \/ RerunSinglePaper

SpecRerun == InitRerun /\ [][NextRerun]_vars

\* ArxivScraper.run (scraper.py:826-857): the download stage and the citations stage
\* run in parallel threads; here the download worker and the citation worker of the
\* same paper, on a fresh data directory.
InitStages ==
    /\ remote \in RerunRemoteStates
    /\ PaperIdle
    /\ ScratchOff
    /\ FilesOff
    /\ ClientOff
    /\ citations_cache = FALSE
    /\ cpc = "fetch"
    /\ citations = FALSE
    /\ already_done = {}
    /\ PoolIdle
    /\ pc = "start"
    /\ FetchOff

NextStages ==
    \/ CreatePaperDir
    \/ DownloadVersion
    \/ ProcessVersion
    \/ CheckTexDir
    \/ OpenMetadata
    \/ DumpMetadata
    \/ SaveReferences
    \/ DumpReferences
    \/ ReplaceReferences
    \/ CitationStore
    \/ SaveCitationsCache
    \/ CitationSaveReferences
    \/ CitationDumpReferences
    \/ CitationReplaceReferences
    \/ UpdateReferencesJson

SpecStages == InitStages /\ [][NextStages]_vars

\* The workers of the pool, each on a paper id of its own (the ids submitted at
\* scraper.py:510 are distinct), as far as they use paths under cache_dir.
InitScratch ==
    /\ remote = <<>>
    /\ pc = "off"
    /\ PaperIdle
    /\ citations_cache = FALSE
    /\ StageOff
    /\ already_done = {}
    /\ PoolIdle
    /\ FetchOff
    /\ spaper \in {f \in [Workers -> PaperIds] : \A w1, w2 \in Workers : w1 # w2 => f[w1] # f[w2]}
    /\ snext = [w \in Workers |-> 1]
    /\ touched = {}
    /\ cancelled = FALSE
    /\ FilesOff
    /\ ClientOff

NextScratch ==
    \/ \E w \in Workers : TouchVersionTemp(w)
    \/ \E w \in Workers : ScratchReturn(w)
    \/ \E w \in Workers : HandlerCleanup(w)

SpecScratch == InitScratch /\ [][NextScratch]_vars

\* One call of download_and_process over NumPapers paper ids.
InitPool ==
    /\ remote = <<>>
    /\ pc = "off"
    /\ PaperIdle
    /\ ScratchOff
    /\ FilesOff
    /\ ClientOff
    /\ citations_cache = FALSE
    /\ StageOff
    /\ already_done \in SUBSET Papers
    /\ PoolIdle
    /\ FetchOff

NextPool ==
    \/ Submit
    \/ \E w \in Workers : WorkerTake(w)
    \/ \E w \in Workers : WorkerRun(w)
    \/ \E w \in Workers : WorkerReadWritten(w)
    \/ \E w \in Workers : WorkerWriteWritten(w)
    \/ \E w \in Workers : WorkerAcquire(w)
    \/ \E w \in Workers : WorkerReadTotal(w)
    \/ \E w \in Workers : WorkerWriteTotal(w)
    \/ \E w \in Workers : WorkerReadResult(w)
    \/ \E w \in Workers : WorkerWriteResult(w)
    \/ \E p \in Papers : Collect(p)
    \/ DriverReturn
    \/ Interrupt

SpecPool == InitPool /\ [][NextPool]_vars

\* The files a tree is made of, the trees, and the downloaded files: every
\* combination of what extract_archive looks at, and a good tar of every tree.
FileSamples == {TexName, SubTexName, BibName, EdgeBibName, BigBibName, FigName,
                UpperFigName, UpperTexName, OtherName}

Trees == {t \in SUBSET FileSamples : Cardinality(t) <= MaxFiles}

ArchiveNames == {TarGzName, <<"paper", ".gz">>, <<"paper", ".tex", ".gz">>,
                 <<"paper", ".tex">>, <<"paper", ".bib">>, <<"paper", ".zip">>,
                 <<"paper">>}

ArchiveInputs ==
    {Archive(tar, zip, name, magic, inner_tar, {TexName, FigName}, raises) :
        tar \in BOOLEAN, zip \in BOOLEAN, name \in ArchiveNames,
        magic \in {"pdf", "html", "gzip", "other"}, inner_tar \in BOOLEAN,
        raises \in SUBSET {"makedirs", "header", "branch", "remove"}}
    \cup {Archive(TRUE, FALSE, TarGzName, "gzip", FALSE, t, {}) : t \in Trees}

\* One downloaded file taken through extract_archive, remove_figures and
\* copy_tex_and_bib_files as the processing loop does (scraper.py:600-626).
InitFiles ==
    /\ remote = <<>>
    /\ pc = "off"
    /\ PaperIdle
    /\ ScratchOff
    /\ citations_cache = FALSE
    /\ StageOff
    /\ already_done = {}
    /\ PoolIdle
    /\ FetchOff
    /\ tpc = "extract"
    /\ archive \in ArchiveInputs
    /\ skip_arg \in BOOLEAN
    /\ FilesIdle
    /\ ClientOff

NextFiles ==
    \/ ExtractArchive
    \/ RemoveFile
    \/ RemoveFiguresReturn
    \/ CollectFiles
    \/ CopyFile
    \/ CollectReturn

SpecFiles == InitFiles /\ [][NextFiles]_vars

\* One paper id handed to _fetch_single_paper_citations (scraper.py:208-216): the
\* call of get_paper_references, request by request, and the store of its result.
InitReferences ==
    /\ remote = <<>>
    /\ pc = "off"
    /\ PaperIdle
    /\ ScratchOff
    /\ FilesOff
    /\ citations_cache = FALSE
    /\ StageOff
    /\ already_done = {}
    /\ PoolIdle
    /\ FetchOff
    /\ MetaOff
    /\ IdsOff
    /\ rpc = "request"
    /\ attempt = 0
    /\ body \in Bodies
    /\ http = <<>>
    /\ references = [type |-> "unset"]
    /\ citation_entry = [type |-> "unset"]

NextReferences ==
    \/ Request
    \/ RangeExhausted
    \/ StoreCitations

SpecReferences == InitReferences /\ [][NextReferences]_vars

\* fetch_metadata over the assigned range, on a fresh cache directory, and again.
InitMetadata ==
    /\ remote = <<>>
    /\ pc = "off"
    /\ PaperIdle
    /\ ScratchOff
    /\ FilesOff
    /\ citations_cache = FALSE
    /\ StageOff
    /\ already_done = {}
    /\ PoolIdle
    /\ FetchOff
    /\ RefOff
    /\ IdsOff
    /\ mpc = "start"
    /\ requested_ids \in RequestedLengths
    /\ remote_known \in {Ids \ u : u \in SUBSET MaybeUnknown}
    /\ metadata_cache = [exists |-> FALSE, keys |-> {}]
    /\ MetaIdle

NextMetadata ==
    \/ LoadMetadataCache
    \/ FetchBatch
    \/ ReturnMetadata
    \/ ResumeMetadata

SpecMetadata == InitMetadata /\ [][NextMetadata]_vars

\* The assigned ranges of the model: months around a turn of the year, paper
\* numbers at both ends of a month; a start after the end is among them.
YearSamples == {2023, 2024}
MonthSamples == {1, 2, 12}
IdSamples == {0, 5, FirstPaperNumber, LastIdOfMonth - 4, LastIdOfMonth}

\* scraper.py:73-85: generate_paper_ids on an assigned range.
InitIds ==
    /\ remote = <<>>
    /\ pc = "off"
    /\ PaperIdle
    /\ ScratchOff
    /\ FilesOff
    /\ citations_cache = FALSE
    /\ StageOff
    /\ already_done = {}
    /\ PoolIdle
    /\ FetchOff
    /\ RefOff
    /\ MetaOff
    /\ gpc = "loop"
    /\ paper_range \in [start_year : YearSamples, start_mon : MonthSamples,
                         start_id : IdSamples, end_year : YearSamples,
                         end_mon : MonthSamples, end_id : IdSamples]
    /\ current_year = paper_range.start_year
    /\ current_mon = paper_range.start_mon
    /\ paper_ids = <<>>

NextIds ==
    \/ GenerateMonth
    \/ ReturnPaperIds

\* The call runs in one thread that keeps taking its next step.
SpecIds == InitIds /\ [][NextIds]_vars /\ WF_vars(NextIds)

\* Either one call of download_and_process over NumPapers paper ids, or one call of
\* _process_single_paper, under a fair scheduler: the driver thread, every worker
\* thread of the executor and the thread inside _process_single_paper keep being
\* scheduled, and each call they make returns. The user's interrupt is under no
\* fairness: it may or may not come.
InitLive ==
    \/ InitPool
    \/ /\ remote \in RemoteStates
       /\ pc = "start"
       /\ PaperIdle
       /\ ScratchOff
       /\ FilesOff
       /\ ClientOff
       /\ citations_cache \in BOOLEAN
       /\ StageOff
       /\ already_done = {}
       /\ dpc = "off"
       /\ PoolQuiet
       /\ FetchOff

DriverStep ==
    \/ Submit
    \/ \E p \in Papers : Collect(p)
    \/ DriverReturn

WorkerStep(w) ==
    \/ WorkerTake(w)
    \/ WorkerRun(w)
    \/ WorkerReadWritten(w)
    \/ WorkerWriteWritten(w)
    \/ WorkerAcquire(w)
    \/ WorkerReadTotal(w)
    \/ WorkerWriteTotal(w)
    \/ WorkerReadResult(w)
    \/ WorkerWriteResult(w)

PaperStep ==
    \/ CreatePaperDir
    \/ DownloadVersion
    \/ DownloadLimit
    \/ ProcessVersion
    \/ CheckTexDir
    \/ OpenMetadata
    \/ DumpMetadata
    \/ SaveReferences
    \/ DumpReferences
    \/ ReplaceReferences

NextLive ==
    \/ DriverStep
    \/ \E w \in Workers : WorkerStep(w)
    \/ Interrupt
    \/ PaperStep

SpecLive ==
    /\ InitLive
    /\ [][NextLive]_vars
    /\ WF_vars(DriverStep)
    /\ \A w \in Workers : WF_vars(WorkerStep(w))
    /\ WF_vars(PaperStep)

\* ------------------------------------------------------------------ claims
\* What the collector leaves in tex/<folder_name>v<N> for archive a (606-626).
Collected(a) == copy_tex_and_bib_files(remove_figures(extract_tarball(a).out), skip_large_bib)

\* Every call of the download collaborator for an existing version returned its file.
AllDownloadsOk ==
    \A i \in 1..Len(attempted) :
        attempted[i].version <= Len(remote)
            => (attempted[i].outcome = "path" /\ ~attempted[i].empty)

AllExtractable == \A k \in 1..Len(remote) : extract_tarball(remote[k]).ok

\* C1: a paper with no remote version ends with the placeholder file
\* tex/<folder_name>/NO_SOURCE_AVAILABLE.txt on disk and no version subdirectory.
C1_PlaceholderWritten ==
    (pc = "done" /\ exc = "none" /\ Len(remote) = 0)
        => ("tex/NO_SOURCE_AVAILABLE.txt" \in paper_files /\ DOMAIN tex_dir = {})

\* C2: in either version loop (the orchestrator's at scraper.py:576 and
\* download_all_versions) only the last call made can be one that failed or found
\* nothing, so no version is tried after a failure; calls go v1, v2, ... in order;
\* and the result holds exactly the versions obtained before the failure.
C2_StopAtFirstGap ==
    LET n == Len(attempted)
        d == Len(downloaded_versions)
        m == Len(fetched)
    IN /\ \A i \in 1..n : attempted[i].version = i
       /\ \A i \in 1..n : i < n => attempted[i].outcome = "path"
       /\ \A i \in 1..d : downloaded_versions[i] = i
       /\ d = Cardinality({i \in 1..n : attempted[i].outcome = "path"})
       /\ \A i \in 1..m : fetched[i].version = i
       /\ \A i \in 1..m : i < m => fetched[i].outcome \in {"path", "skipped"}
       /\ results = SelectSeq([i \in 1..m |-> i], LAMBDA i : fetched[i].outcome = "path")

C2_Witness ==
    /\ pc = "done"
    /\ Len(attempted) = 3
    /\ attempted[3].outcome = "missing"
    /\ Len(remote) >= 3
    /\ downloaded_versions = <<1, 2>>
    /\ DOMAIN tex_dir = {1, 2}

C4_OneOutcomeCountersExact ==
    dpc = "returned" =>
        /\ \A p \in Papers : Len(future[p]) = (IF p \in Submitted THEN 1 ELSE 0)
        /\ stats["total_papers"] = Cardinality(Submitted)
        /\ stats["successful_papers"] =
               Cardinality({p \in Submitted : future[p] = <<"True">>})
        /\ stats["failed_papers"] =
               Cardinality({p \in Submitted : future[p] = <<"False">>})

\* C5: the step in which a worker catches the exception of its paper's
\* orchestration counts the paper: total_papers and failed_papers each grow by one.
C5_RaisedPaperCounted ==
    [][\A w \in Workers :
          (wpc[w] = "run" /\ wpc'[w] = "idle")
              => /\ stats'["total_papers"] = stats["total_papers"] + 1
                 /\ stats'["failed_papers"] = stats["failed_papers"] + 1]_vars

\* C6: the orchestrator never raises to its caller.
C6_NeverRaises == result # "raised"

\* C7: when processing has ended no scratch directory of the paper is left.
C7_NoScratchLeft == pc = "done" => (DOMAIN version_temp = {} /\ ~temp_dir)

\* C8: when processing has ended every downloaded archive has been deleted.
C8_ArchivesDeleted == pc = "done" => cache_files = {}

\* C9: the call returns True whenever at least one version was downloaded and
\* handed to the extraction step (and no step raised).
C9_SuccessIfAnyDownloaded ==
    (pc = "done" /\ exc = "none" /\ Len(downloaded_versions) >= 1) => result = "True"

\* C10: an extraction failure of one version neither stops the processing loop nor
\* touches the other versions: every downloaded version the loop has passed has its
\* subdirectory with exactly its collected files if it extracted and none if it did
\* not, and a call that ends without an exception has passed every downloaded version.
C10_ExtractionFailureIsolated ==
    /\ \A i \in 1..Len(downloaded_versions) :
          i < idx =>
             LET k == downloaded_versions[i]
             IN IF extract_tarball(downloaded_file(k)).ok
                THEN k \in DOMAIN tex_dir /\ tex_dir[k] = Collected(downloaded_file(k))
                ELSE k \notin DOMAIN tex_dir
    /\ (pc = "done" /\ exc = "none" /\ paper_dir) => idx = Len(downloaded_versions) + 1

C10_Witness ==
    /\ pc = "done" /\ exc = "none"
    /\ downloaded_versions = <<1, 2, 3>>
    /\ extract_tarball(remote[1]).ok
    /\ ~extract_tarball(remote[2]).ok
    /\ extract_tarball(remote[3]).ok
    /\ tex_dir = (1 :> {TexName, BibName} @@ 3 :> {TexName, BibName})

\* C11: a second run over the same paper downloads no version the run before
\* collected (one with a subdirectory under tex/), and, both runs being free of
\* failures, ends with the files the run before left.
C11_SecondRunDownloadsNothingCollected ==
    run >= 2 =>
        /\ \A i \in 1..Len(attempted) :
              attempted[i].version \notin DOMAIN previous_run.tex_dir
        /\ (pc \in {"done", "filtered"} /\ previous_run.clean /\ RunClean)
              => OnDisk(TRUE) = previous_run

C13_FetcherCalledWithCache ==
    pc = "download" =>
        /\ fpc # "off"
        /\ skip_versions \subseteq {k \in DOMAIN tex_dir : tex_dir[k] # {}}

StrictlyAscending(s) == \A i, j \in 1..Len(s) : i < j => s[i] < s[j]

\* The version numbers of a history of [version, outcome] records.
VersionsOf(h) == [i \in 1..Len(h) |-> h[i].version]

\* C14: versions are downloaded and processed in strictly ascending order of version
\* number: in both version loops version k + 1 is asked for only after version k,
\* and the processing loop hands the downloaded versions to the extractor in the
\* order they were downloaded, so k + 1 is never extracted before a downloaded k.
C14_AscendingOrder ==
    /\ StrictlyAscending(VersionsOf(attempted))
    /\ \A i \in 1..Len(attempted) :
          attempted[i].version > 1
              => \E j \in 1..(i - 1) : attempted[j].version = attempted[i].version - 1
    /\ StrictlyAscending(downloaded_versions)
    /\ StrictlyAscending(extracted)
    /\ Len(extracted) <= Len(downloaded_versions)
    /\ \A i \in 1..Len(extracted) : extracted[i] = downloaded_versions[i]
    /\ StrictlyAscending(VersionsOf(fetched))
    /\ \A i \in 1..Len(fetched) :
          fetched[i].version > 1
              => \E j \in 1..(i - 1) : fetched[j].version = fetched[i].version - 1
    /\ StrictlyAscending(results)

C14_Witness ==
    /\ pc = "done"
    /\ VersionsOf(attempted) = <<1, 2, 3, 4>>
    /\ downloaded_versions = <<1, 2, 3>>
    /\ extracted = <<1, 2, 3>>
    /\ ~extract_tarball(remote[2]).ok

\* C15: once tex/<folder_name>v<N> exists it exists in every later state, of the same
\* run and of later runs, and keeps the files it held.
C15_TexDirKept ==
    [][\A k \in DOMAIN tex_dir : k \in DOMAIN tex_dir' /\ tex_dir[k] \subseteq tex_dir'[k]]_vars

C15_Witness ==
    /\ run = 2
    /\ pc = "done"
    /\ exc = "caught"
    /\ DOMAIN previous_run.tex_dir = {1, 2}
    /\ extracted = <<>>
    /\ tex_dir = previous_run.tex_dir

\* C16: at every moment, so also if the process is killed there, metadata.json and
\* references.json at their final paths are each absent or complete.
C16_FinalPathsComplete ==
    \A f \in {MetadataFile, ReferencesFile} : f \in paper_files => f \notin incomplete

\* The files under the paper directory a thread has open for writing or is about to
\* rename, at position p of the writes of metadata.json and references.json.
WritesAt(p) ==
    CASE p = "dump" -> {MetadataFile}
      [] p = "ref_dump" -> {ReferencesTmp}
      [] p = "ref_replace" -> {ReferencesTmp, ReferencesFile}
      [] OTHER -> {}

\* C17: two workers running at the same time, of the download stage or of another
\* stage, never write into the same paper's output directory or to the same path.
C17_WritesPartitioned ==
    /\ WritesAt(pc) \cap WritesAt(cpc) = {}
    /\ WritesAt(pc) = {} \/ WritesAt(cpc) = {}

\* C18: a worker thread is inside an update of a PerformanceMonitor counter only
\* while it holds the lock of the counters, so no increment is lost: when the driver
\* has returned, metadata_files_written is the number of papers whose metadata.json
\* was written.
C18_CountersUnderLock ==
    /\ \A w \in Workers :
          wpc[w] \in {"write_written", "write_total", "write_result"} => process_lock = w
    /\ dpc = "returned" =>
          stats["metadata_files_written"] =
              Cardinality({p \in Submitted : future[p] = <<"True">>})

\* Every path under cache_dir the worker of paper_id can use as a scratch directory.
ScratchPaths(paper_id) ==
    {temp_dir_path(paper_id)} \cup {version_temp_dir(paper_id, n) : n \in 1..SafetyLimit}

\* C19: a scratch directory used by the worker of one paper is never used by the
\* worker of another: the scratch paths of distinct paper ids are disjoint.
C19_ScratchDisjoint ==
    /\ \A a, b \in touched : a.path = b.path => a.paper = b.paper
    /\ \A w1, w2 \in Workers :
          w1 # w2 => ScratchPaths(spaper[w1]) \cap ScratchPaths(spaper[w2]) = {}

C19_Witness ==
    /\ \A w \in Workers : snext[w] = 0
    /\ SubSeq(spaper[1], 1, 4) = SubSeq(spaper[2], 1, 4)
    /\ spaper[1] # spaper[2]
    /\ \A w \in {1, 2} :
          /\ [path |-> temp_dir_path(spaper[w]), paper |-> spaper[w]] \in touched
          /\ [path |-> version_temp_dir(spaper[w], 1), paper |-> spaper[w]] \in touched

\* C20: once the run is cancelled during the download stage no task that has not
\* started is started, and the driver no longer waits for the workers: it takes no
\* further result and does not stay in its collecting loop until they are done.
C20_CancelDropsPending ==
    [][cancelled =>
          /\ \A w \in Workers : wpc[w] = "idle" => wpc'[w] = "idle"
          /\ collected' = collected
          /\ dpc' = dpc]_vars

\* C21: under fair scheduling and terminating downloads every paper submitted to
\* the pool eventually has an outcome and the driver returns, whatever the papers'
\* outcomes were (False, True, or an exception caught by the task); a call of
\* _process_single_paper ends, having made at most SafetyLimit version attempts.
C21_RunTerminates ==
    /\ (dpc = "start") ~> (dpc = "returned" /\ \A p \in Submitted : future[p] # <<>>)
    /\ (pc = "start") ~> (pc = "done" /\ result # "none")
    /\ [](Len(attempted) <= SafetyLimit)

\* The driver has returned from a pool of NumPapers papers of which one raised (it
\* was never counted), one returned False and one returned True.
C21_Witness ==
    /\ dpc = "returned"
    /\ Submitted = Papers
    /\ stats["total_papers"] < NumPapers
    /\ \E p \in Papers : future[p] = <<"True">>
    /\ stats["failed_papers"] > 0

\* The operations extract_archive made, and the classes of section 4.1.
OpsMade == {ops_made[i] : i \in 1..Len(ops_made)}
IsContainer == archive.tar \/ archive.zip
IsGzNamed == ~IsContainer /\ suffix(archive.name) = ".gz"
IsBareSource == ~IsContainer /\ suffix(archive.name) \in {".tex", ".bib"}

\* C22: extract_archive tries the classes in the order tar, zip, name ending in
\* .gz, bare .tex/.bib, unrecognized, and only the first class that matches acts:
\* a tar or zip is extracted whatever its name and (nothing raising) reported
\* True with its members in extract_dir, a bare .tex or .bib file is copied into
\* extract_dir and reported True, a file of no class is reported False.
C22_ClassificationOrder ==
    success # "none" =>
        /\ archive.tar => OpsMade \subseteq {"untar", "remove_archive"}
        /\ (~archive.tar /\ archive.zip) => OpsMade \subseteq {"unzip", "remove_archive"}
        /\ IsGzNamed => OpsMade \cap {"unzip", "copy"} = {}
        /\ (~IsContainer /\ ~IsGzNamed) => OpsMade \subseteq {"copy", "remove_archive"}
        /\ archive.raises = {} =>
             IF IsContainer
             THEN /\ success = "True"
                  /\ source_tree = archive.members
                  /\ ops_made = IF archive.tar THEN <<"untar">> ELSE <<"unzip">>
             ELSE IF IsGzNamed
             THEN success = "True" <=> archive.magic \in {"pdf", "gzip"}
             ELSE IF IsBareSource
             THEN success = "True" /\ source_tree = {File(<<>>, archive.name, 1)}
             ELSE success = "False" /\ source_tree = {}

\* A tar that is named like a bare .tex file was extracted as a tar.
C22_Witness ==
    /\ success = "True"
    /\ archive.tar
    /\ archive.zip
    /\ suffix(archive.name) = ".tex"
    /\ archive.raises = {}
    /\ ops_made = <<"untar">>
    /\ source_tree = archive.members

\* C23: a file whose name ends in .gz, that is neither tar nor zip and starts with
\* %PDF, is copied into extract_dir as a .pdf file, extract_archive returns True,
\* and neither a tar extraction nor a decompression is made (nothing raising).
C23_PdfSavedAsPdf ==
    (success # "none" /\ IsGzNamed /\ archive.magic = "pdf" /\ archive.raises = {}) =>
        /\ success = "True"
        /\ Cardinality(source_tree) = 1
        /\ \A f \in source_tree : suffix(f.name) = ".pdf"
        /\ OpsMade \cap {"untar", "unzip", "gunzip"} = {}

\* C24: a file whose name ends in .gz and whose content starts with '<' is never
\* reported True, whatever raises; when nothing raises it is saved into extract_dir
\* under its name plus .html.
C24_HtmlIsFailure ==
    (success # "none" /\ IsGzNamed /\ archive.magic = "html") =>
        /\ success = "False"
        /\ archive.raises = {} =>
             source_tree = {File(<<>>, archive.name \o <<".html">>, 1)}

\* paper.tar.gz holding an error page was saved as paper.tar.gz.html.
C24_Witness ==
    /\ success = "False"
    /\ IsGzNamed
    /\ archive.magic = "html"
    /\ archive.raises = {}
    /\ source_tree = {File(<<>>, <<"paper", ".tar", ".gz", ".html">>, 1)}
    /\ archive_on_disk

\* C25: a file whose name ends in .gz, with a gzip signature, is decompressed
\* (nothing raising): a tar payload leaves its members and not the decompressed
\* file in extract_dir, any other payload leaves the decompressed file, named
\* without the .gz; extract_archive returns True in both cases.
C25_GzipDecompressed ==
    (success # "none" /\ IsGzNamed /\ archive.magic = "gzip" /\ archive.raises = {}) =>
        /\ success = "True"
        /\ "gunzip" \in OpsMade
        /\ source_tree = IF archive.inner_tar
                         THEN archive.members
                         ELSE {File(<<>>, stem(archive.name), 1)}

\* A gzip whose payload is a tar was decompressed and its members extracted.
C25_Witness ==
    /\ success = "True"
    /\ IsGzNamed
    /\ archive.magic = "gzip"
    /\ archive.inner_tar
    /\ archive.raises = {}
    /\ source_tree = {TexName, FigName}
    /\ ops_made = <<"read_magic", "gunzip", "untar", "remove_decompressed">>

\* A call of extract_archive raised: makedirs, the header read, or the
\* extraction, decompression or copy that was made.
ExceptionOccurred ==
    \/ "makedirs" \in archive.raises
    \/ "header" \in archive.raises /\ "read_magic" \in OpsMade
    \/ /\ "branch" \in archive.raises
       /\ OpsMade \cap {"untar", "unzip", "copy_pdf", "copy_html", "gunzip", "copy"} # {}

\* C26: whenever an exception occurs in extract_archive (and os.remove works), it
\* returns False and the source archive no longer exists afterwards.
C26_ExceptionDeletesArchive ==
    (success # "none" /\ ExceptionOccurred /\ "remove" \notin archive.raises)
    => (success = "False" /\ ~archive_on_disk)

\* remove_figures has returned.
Stripped == tpc \in {"stripped", "collect", "raised", "done"}

\* C27: when remove_figures has returned, the files gone from the tree are the
\* files whose lower-cased name ends in one of the ten figure extensions and
\* whose removal did not fail, every other file (every .tex and .bib file among
\* them) is still there, and files_removed is the number of files gone.
C27_FiguresRemoved ==
    Stripped =>
        LET figures == {f \in source_tree : suffix(lower(f.name)) \in figure_extensions}
        IN /\ Cardinality(figure_extensions) = 10
           /\ source_tree \ extract_dir = figures \ removal_failed
           /\ extract_dir \subseteq source_tree
           /\ \A f \in source_tree : suffix(f.name) \in {".tex", ".bib"} => f \in extract_dir
           /\ files_removed = Cardinality(source_tree \ extract_dir)

\* fig.png could not be removed, sub/PLOT.PNG was; main.tex is still there.
C27_Witness ==
    /\ tpc = "stripped"
    /\ source_tree = {FigName, UpperFigName, TexName}
    /\ removal_failed = {FigName}
    /\ extract_dir = {FigName, TexName}
    /\ files_removed = 1

\* C28: when copy_tex_and_bib_files has returned and no copy raised, every .tex
\* file and every .bib file of at most bib_size_threshold bytes of the source tree
\* is under dest_dir at the same relative path with the same content, and dest_dir
\* holds nothing but .tex and .bib files of the source tree.
C28_TexAndBibCollected ==
    (tpc = "done" /\ copy_failed = {}) =>
        /\ \A f \in extract_dir :
             (\/ suffix(f.name) = ".tex"
              \/ suffix(f.name) = ".bib" /\ f.size <= bib_size_threshold)
             => File(f.dir, f.name, f.size) \in dest_dir
        /\ \A g \in dest_dir : g \in extract_dir /\ suffix(g.name) \in {".tex", ".bib"}

\* sub/chap.tex is under dest_dir/sub, notes.txt was left out.
C28_Witness ==
    /\ tpc = "done"
    /\ copy_failed = {}
    /\ extract_dir = {SubTexName, BibName, OtherName}
    /\ dest_dir = {SubTexName, BibName}

C30_FailureDoesNotStopWalk ==
    /\ [][(removal_failed' # removal_failed \/ copy_failed' # copy_failed) =>
            /\ wpos' = wpos + 1
            /\ tpc' = tpc
            /\ files_removed' = files_removed
            /\ copied' = copied]_vars
    /\ [](Stripped =>
            \A i \in 1..Len(walk) :
                suffix(lower(walk[i].name)) \in figure_extensions
                => walk[i] \in removal_failed \/ walk[i] \notin extract_dir)
    /\ [](tpc = "done" =>
            /\ copied = Len(all_files) - skipped_bib - Cardinality(copy_failed)
            /\ \A i \in 1..Len(all_files) :
                 \/ all_files[i] \in copy_failed
                 \/ all_files[i] \in dest_dir
                 \/ skip_arg /\ all_files[i].size > bib_size_threshold)

\* A removal and a copy raised, each on a file that was not the last of its walk,
\* and the files after them were removed and copied.
C30_Witness ==
    /\ tpc = "done"
    /\ \E i, j \in 1..Len(walk) :
         /\ i < j
         /\ walk[i] \in removal_failed
         /\ walk[j] \in source_tree \ extract_dir
    /\ \E i, j \in 1..Len(all_files) :
         /\ i < j
         /\ all_files[i] \in copy_failed
         /\ all_files[j] \in dest_dir
    /\ files_removed = 1
    /\ copied = 1
    /\ Cardinality(removal_failed) = 1
    /\ Cardinality(copy_failed) = 1

\* C31: in either version loop a download that reported success and left a file
\* that is absent ("missing") or empty is the last call of the loop, and its
\* version is not in the list of obtained versions.
C31_AbsentOrEmptyStops ==
    /\ \A i \in 1..Len(attempted) :
          (attempted[i].outcome = "missing" \/ attempted[i].empty)
          => /\ i = Len(attempted)
             /\ \A j \in 1..Len(downloaded_versions) :
                    downloaded_versions[j] # attempted[i].version
    /\ \A i \in 1..Len(fetched) :
          (fetched[i].outcome = "missing" \/ fetched[i].empty)
          => /\ i = Len(fetched)
             /\ \A j \in 1..Len(results) : results[j] # fetched[i].version

\* C32: a telemetry call that fails changes nothing: a citation worker that has
\* stored a paper's references goes on to the per-paper write of references.json
\* (scraper.py:233-254) exactly as it does when the telemetry call succeeds, so when
\* metadata.json is on disk at that moment references.json gets written.
C32_TelemetryFailureHarmless ==
    [][(cpc = "fetch" /\ citations') => cpc' = "check"]_vars

\* C33: the destination tex subdirectory does not depend on the order of the two
\* steps: what remove_figures followed by copy_tex_and_bib_files leaves under
\* dest_dir (no copy raising, every size read) is what the collector copies from
\* the tree as it was extracted, before any figure was removed.
C33_OrderIndependent ==
    (tpc = "done" /\ copy_failed = {} /\ size_unread = {})
        => dest_dir = copy_tex_and_bib_files(source_tree, skip_arg)

\* Two figures were removed (one in a subdirectory) before main.tex and
\* sub/chap.tex were collected.
C33_Witness ==
    /\ tpc = "done"
    /\ copy_failed = {} /\ size_unread = {}
    /\ source_tree = {FigName, UpperFigName, TexName, SubTexName}
    /\ extract_dir = {TexName, SubTexName}
    /\ files_removed = 2
    /\ dest_dir = {TexName, SubTexName}

\* C34: in the download stage, in every state where process_lock is free,
\* total_papers = successful_papers + failed_papers; and total_papers is never
\* more than the number of papers submitted to the pool.
C34_CountersBalanced ==
    /\ process_lock = 0
          => stats["total_papers"] = stats["successful_papers"] + stats["failed_papers"]
    /\ stats["total_papers"] <= Cardinality(Submitted)

\* Of three submitted papers one is counted as successful, one as failed, and the
\* one whose call raised is in no counter.
C34_Witness ==
    /\ dpc = "returned"
    /\ process_lock = 0
    /\ Cardinality(Submitted) = NumPapers
    /\ stats["total_papers"] = NumPapers - 1
    /\ stats["successful_papers"] = 1
    /\ stats["failed_papers"] = 1

C36_ReferencesNeedMetadata ==
    ReferencesFile \in paper_files => MetadataFile \in paper_files

\* The citation worker has renamed references.json into place while the download
\* worker of the same paper is still inside the dump of metadata.json.
C36_Witness ==
    /\ pc = "dump"
    /\ cpc = "done"
    /\ ReferencesFile \in paper_files
    /\ MetadataFile \in paper_files

\* C37: the entry fetch_citations records for a paper id holds the references the
\* reference client returned for it: whenever the client returned references, the
\* entry is those references, so it is empty only when the client returned none
\* or failed.
C37_EntryHoldsReferences ==
    (rpc = "stored" /\ truthy(references))
        => (truthy(citation_entry) /\ citation_entry.value = references.value)

\* C38: for every sequence of responses get_paper_references ends after at most
\* MAX_RETRIES HTTP requests and returns a dict: the parsed references when the
\* last response was a success, the empty dict in every other case.
C38_ReturnsDictWithinRetries ==
    rpc \in {"returned", "stored"}
        => /\ Len(http) \in 1..MAX_RETRIES
           /\ references.type = "dict"
           /\ references.value = IF http[Len(http)] = "200" THEN references_dict(body)
                                                             ELSE <<>>

\* C39: when fetch_metadata returns, on a fresh or a resumed run in which every
\* request to the remote source was answered, every requested id the remote
\* source knows has an entry in the returned metadata, every entry loaded from
\* the cache is still there, and no id with an entry in the cache was requested
\* from the remote source.
C39_MetadataComplete ==
    (mpc = "returned" /\ failed_batches = 0)
        => /\ \A pid \in 1..requested_ids :
                 pid \in remote_known => pid \in DOMAIN metadata
           /\ loaded \subseteq DOMAIN metadata
           /\ asked \cap loaded = {}

\* (year, mon) is before (year2, mon2).
MonthBefore(year, mon, year2, mon2) == year < year2 \/ (year = year2 /\ mon < mon2)

\* The string is YYMM.NNNNN: four digits, a dot, five digits.
Canonical(arxiv_id) ==
    /\ Len(arxiv_id) = 10
    /\ arxiv_id[5] = "."
    /\ \A i \in (1..10) \ {5} : \E d \in 1..10 : DigitChars[d] = arxiv_id[i]

\* What C40 says of the list generate_paper_ids returns.
ReturnedIdsInOrder ==
    /\ len(paper_ids) <= IdLimit + 1
    /\ \A k \in 1..Len(paper_ids) :
          LET seg == paper_ids[k]
          IN /\ seg.first <= seg.last
             /\ \A n \in seg.first..seg.last :
                   /\ Canonical(format_arxiv_id(seg.year, seg.mon, n))
                   /\ parse_arxiv_id(format_arxiv_id(seg.year, seg.mon, n))
                          = <<seg.year, seg.mon, n>>
             /\ \/ MonthBefore(seg.year, seg.mon, paper_range.end_year, paper_range.end_mon)
                \/ /\ seg.year = paper_range.end_year /\ seg.mon = paper_range.end_mon
                   /\ seg.last <= paper_range.end_id
             /\ IF k = 1
                THEN /\ seg.year = paper_range.start_year
                     /\ seg.mon = paper_range.start_mon
                     /\ seg.first = paper_range.start_id
                ELSE LET prev == paper_ids[k - 1]
                     IN /\ <<seg.year, seg.mon>> =
                              (IF prev.mon = 12 THEN <<prev.year + 1, 1>>
                                                ELSE <<prev.year, prev.mon + 1>>)
                        /\ seg.mon \in 1..12

\* C40: generate_paper_ids terminates for every assigned range (a start month
\* after the end month included) and returns canonical YYMM.NNNNN ids, without
\* duplicates, in strictly increasing (month, number) order, starting at
\* (start_month, start_id), never past (end_month, end_id), December followed by
\* January of the next year, and never more than 10001 of them.
C40_PaperIdsGenerated ==
    /\ [](gpc = "returned" => ReturnedIdsInOrder)
    /\ <>(gpc = "returned")

\* From 2312.99999 to 2401.00005: December is followed by January 2024.
C40_Witness ==
    /\ gpc = "returned"
    /\ paper_ids = <<Segment(2023, 12, LastIdOfMonth, LastIdOfMonth), Segment(2024, 1, 0, 5)>>
====
